---- MODULE Spec2Model ----
(***************************************************************************)
(* Model of src/utils/satellite_image_generator.py, class                  *)
(* SatelliteImageGenerator: zoom selection, tile enumeration, the          *)
(* concurrent cached tile fetch, mosaic assembly, crop/resize and the      *)
(* compositing steps of generate_annotated_satellite_image.                *)
(*                                                                         *)
(* Geographic coordinates are integers in units of one pixel of zoom 18:   *)
(* the world is tile_size * 2^18 units wide, longitude lon (degrees) is    *)
(* the unit lon * 2^26 / 360 and a tile of zoom z is tile_size * 2^(18-z)  *)
(* units wide.  Latitudes are taken in the equatorial band, where the      *)
(* rows of the Web-Mercator grid used by mercantile are evenly spaced in   *)
(* latitude to first order; a latitude is then measured in the same unit   *)
(* and the row of latitude lat at zoom z is (2^25 - lat) div tile width.   *)
(* Arithmetic is exact (the rounding of Python floats is not modelled);    *)
(* int() is truncation toward zero.                                        *)
(***************************************************************************)
EXTENDS Integers, Sequences, FiniteSets, TLC

\* ---------------------------------------------------------------- constants

\* self.tile_size
tile_size == 256
\* range(18, 0, -1) in _calculate_zoom_level: the highest zoom scanned
scan_zoom == 18
\* the zoom _calculate_zoom_level returns when no zoom of the scan fits
fallback_zoom == 10
\* zoom = min(zoom, 15) in generate_annotated_satellite_image
clamp_zoom == 15
\* len(tiles) > 50 ... tiles = tiles[:50]
tile_cap == 50
\* ThreadPoolExecutor(max_workers=20)
max_workers == 20
\* Retry(total=3, ...): the retries after the first attempt
retry_total == 3
\* legend_height = 200
legend_height == 200

\* Units per tile at zoom z, units per pixel at zoom z, half the world.
TileUnits(z) == tile_size * 2^(scan_zoom - z)
PixelUnits(z) == 2^(scan_zoom - z)
HalfWorld == (tile_size * 2^scan_zoom) \div 2

Abs(a) == IF a >= 0 THEN a ELSE -a
Min2(a, b) == IF a <= b THEN a ELSE b
Max2(a, b) == IF a >= b THEN a ELSE b
\* Python int(a / b) for b > 0: truncation toward zero
Trunc(a, b) == IF a >= 0 THEN a \div b ELSE -((-a) \div b)

\* ------------------------------------------------ _calculate_zoom_level

\* tiles_x * self.tile_size <= width and tiles_y * self.tile_size <= height,
\* with lon_span = 360 / 2^zoom and lat_span = 180 / 2^zoom:
\*   tiles_x * tile_size = lon_diff / PixelUnits(zoom)
\*   tiles_y * tile_size = 2 * lat_diff / PixelUnits(zoom)
\* mutant: the height is not tested
ZoomFitsWidthOnly(lat_diff, lon_diff, zoom, width, height) ==
    lon_diff <= width * PixelUnits(zoom)

ZoomFits(lat_diff, lon_diff, zoom, width, height) ==
    /\ lon_diff <= width * PixelUnits(zoom)
    /\ 2 * lat_diff <= height * PixelUnits(zoom)

\* mutant: the scan goes on to zoom 0 instead of falling back
RECURSIVE ZoomScanToZero(_, _, _, _, _)
ZoomScanToZero(lat_diff, lon_diff, zoom, width, height) ==
    IF zoom = 0 THEN 0
    ELSE IF ZoomFits(lat_diff, lon_diff, zoom, width, height) THEN zoom
    ELSE ZoomScanToZero(lat_diff, lon_diff, zoom - 1, width, height)

RECURSIVE ZoomScan(_, _, _, _, _)
ZoomScan(lat_diff, lon_diff, zoom, width, height) ==
    IF zoom = 0 THEN fallback_zoom
    ELSE IF ZoomFits(lat_diff, lon_diff, zoom, width, height) THEN zoom
    ELSE ZoomScan(lat_diff, lon_diff, zoom - 1, width, height)

CalculateZoomLevel(min_lat, min_lon, max_lat, max_lon, width, height) ==
    ZoomScan(Abs(max_lat - min_lat), Abs(max_lon - min_lon), scan_zoom,
             width, height)

\* ------------------------------------------------------------ mercantile

\* mercantile.tile(lng, lat, zoom): x <= 0 -> 0, x >= 1 -> 2^zoom - 1,
\* else floor(x * 2^zoom); the same for y.
TileIndex(u, zoom) ==
    IF u <= 0 THEN 0
    ELSE IF u >= 2 * HalfWorld THEN 2^zoom - 1
    ELSE u \div TileUnits(zoom)

TileX(lon, zoom) == TileIndex(lon + HalfWorld, zoom)
TileY(lat, zoom) == TileIndex(HalfWorld - lat, zoom)

\* tile(e - LL_EPSILON, s + LL_EPSILON, zoom): a coordinate that lies on a
\* unit boundary moves into the unit before it (west of e, north of s is
\* a smaller y).
TileXBefore(lon, zoom) ==
    IF lon + HalfWorld <= 0 THEN 0
    ELSE IF lon + HalfWorld > 2 * HalfWorld THEN 2^zoom - 1
    ELSE (lon + HalfWorld - 1) \div TileUnits(zoom)

TileYBefore(lat, zoom) ==
    IF HalfWorld - lat <= 0 THEN 0
    ELSE IF HalfWorld - lat > 2 * HalfWorld THEN 2^zoom - 1
    ELSE (HalfWorld - lat - 1) \div TileUnits(zoom)

\* One bounding box of mercantile.tiles after clamping: the tile ranges
\* for i in range(ul.x, lr.x + 1): for j in range(ul.y, lr.y + 1).
TileRange(w, s, e, n, zoom) ==
    LET cw == Max2(-HalfWorld, w)
        ce == Min2(HalfWorld, e)
    IN [x1 |-> TileX(cw, zoom), x2 |-> TileXBefore(ce, zoom),
        y1 |-> TileY(n, zoom),  y2 |-> TileYBefore(s, zoom)]

RangeCols(r) == IF r.x2 >= r.x1 THEN r.x2 - r.x1 + 1 ELSE 0
RangeRows(r) == IF r.y2 >= r.y1 THEN r.y2 - r.y1 + 1 ELSE 0
RangeCount(r) == RangeCols(r) * RangeRows(r)
\* the k-th tile (k >= 0) of a range, x outer and y inner
RangeTile(r, k) ==
    [x |-> r.x1 + (k \div RangeRows(r)), y |-> r.y1 + (k % RangeRows(r))]

\* mercantile.tiles(west, south, east, north, zooms=zoom): when
\* west > east the box is split at the antimeridian into
\* (-180, s, east, n) and (west, s, 180, n), enumerated in that order.
TileRanges(w, s, e, n, zoom) ==
    IF w > e
    THEN << TileRange(-HalfWorld, s, e, n, zoom),
            TileRange(w, s, HalfWorld, n, zoom) >>
    ELSE << TileRange(w, s, e, n, zoom) >>

RECURSIVE RangesCount(_)
RangesCount(rs) ==
    IF rs = << >> THEN 0 ELSE RangeCount(Head(rs)) + RangesCount(Tail(rs))

RECURSIVE RangesTile(_, _)
RangesTile(rs, k) ==
    IF k < RangeCount(Head(rs)) THEN RangeTile(Head(rs), k)
    ELSE RangesTile(Tail(rs), k - RangeCount(Head(rs)))

\* len(list(mercantile.tiles(...)))
TileCount(min_lat, min_lon, max_lat, max_lon, zoom) ==
    RangesCount(TileRanges(min_lon, min_lat, max_lon, max_lat, zoom))

\* mercantile.ul(x, y, zoom): the north-west corner of a tile
UlLng(x, zoom) == x * TileUnits(zoom) - HalfWorld
UlLat(y, zoom) == HalfWorld - y * TileUnits(zoom)

\* ----------------------------------------------------------------- images

Gray == "gray"

\* Image.new('RGB', (w, h), (200, 200, 200)): a raster of w x h pixels; vals
\* is the set of contents visible in it (Gray, or the bytes of a tile).
ImageNew(w, h) == [w |-> w, h |-> h, vals |-> {Gray}]

\* The cells of a mosaic of cols x rows tiles, each named by the pixel
\* offset of its upper left corner.
Cells(cols, rows) ==
    { <<i * tile_size, j * tile_size>> : i \in 0..(cols - 1), j \in 0..(rows - 1) }

\* composite.paste(tile_image, (x_offset, y_offset)) of a tile-sized image
Paste(cells, content, x_offset, y_offset) ==
    IF <<x_offset, y_offset>> \in DOMAIN cells
    THEN [cells EXCEPT ![<<x_offset, y_offset>>] = content]
    ELSE cells

\* composite.crop((x1, y1, x2, y2)): the contents of the cells that the
\* rectangle meets
Crop(cells, x1, y1, x2, y2) ==
    [w |-> x2 - x1, h |-> y2 - y1,
     vals |-> { cells[c] : c \in { d \in DOMAIN cells :
                    /\ d[1] < x2 /\ d[1] + tile_size > x1
                    /\ d[2] < y2 /\ d[2] + tile_size > y1 } }]

\* cropped.resize((w, h), BILINEAR)
Resize(img, w, h) == [img EXCEPT !.w = w, !.h = h]

\* --------------------------------------------- _fetch_satellite_tiles, pure

\* tiles = list(mercantile.tiles(...)); tiles = tiles[:50]
KeptCount(min_lat, min_lon, max_lat, max_lon, zoom) ==
    Min2(TileCount(min_lat, min_lon, max_lat, max_lon, zoom), tile_cap)

TileList(min_lat, min_lon, max_lat, max_lon, zoom) ==
    LET rs == TileRanges(min_lon, min_lat, max_lon, max_lat, zoom)
    IN [k \in 1..KeptCount(min_lat, min_lon, max_lat, max_lon, zoom) |->
          [z |-> zoom, y |-> RangesTile(rs, k - 1).y, x |-> RangesTile(rs, k - 1).x]]

SeqMin(f) == CHOOSE m \in { f[k] : k \in DOMAIN f } :
                 \A k \in DOMAIN f : m <= f[k]
SeqMax(f) == CHOOSE m \in { f[k] : k \in DOMAIN f } :
                 \A k \in DOMAIN f : m >= f[k]

MinX(ts) == SeqMin([k \in DOMAIN ts |-> ts[k].x])
MaxX(ts) == SeqMax([k \in DOMAIN ts |-> ts[k].x])
MinY(ts) == SeqMin([k \in DOMAIN ts |-> ts[k].y])
MaxY(ts) == SeqMax([k \in DOMAIN ts |-> ts[k].y])

\* mutant: the grid is one column short
GridColsShort(ts) == MaxX(ts) - MinX(ts)
GridCols(ts) == MaxX(ts) - MinX(ts) + 1
\* mutant: the rows are counted from row 0 of the zoom level
GridRowsFromZero(ts) == MaxY(ts) + 1
GridRows(ts) == MaxY(ts) - MinY(ts) + 1
GridWidth(ts) == GridCols(ts) * tile_size
GridHeight(ts) == GridRows(ts) * tile_size

\* mutant: the offset is not scaled by the tile size
XOffsetUnscaled(tile, min_x) == tile.x - min_x
\* x_offset, y_offset of _fetch_single_tile
XOffset(tile, min_x) == (tile.x - min_x) * tile_size
YOffset(tile, min_y) == (tile.y - min_y) * tile_size

\* crop_x1 .. crop_y2 before clamping: int(((lon - nw.lng) / lon_range) *
\* grid_width) with lon_range = cols * TileUnits and grid_width = cols *
\* tile_size, so the quotient is (lon - nw.lng) / PixelUnits.
RawCrop(ts, zoom, min_lat, min_lon, max_lat, max_lon) ==
    LET nw_lng == UlLng(MinX(ts), zoom)
        nw_lat == UlLat(MinY(ts), zoom)
    IN [x1 |-> Trunc(min_lon - nw_lng, PixelUnits(zoom)),
        y1 |-> Trunc(nw_lat - max_lat, PixelUnits(zoom)),
        x2 |-> Trunc(max_lon - nw_lng, PixelUnits(zoom)),
        y2 |-> Trunc(nw_lat - min_lat, PixelUnits(zoom))]

\* mutant: only the lower end is clamped
ClampLow(v, hi) == Max2(0, v)

\* crop_x1 = max(0, min(crop_x1, grid_width)) ...
Clamp(v, hi) == Max2(0, Min2(v, hi))

CropBox(ts, zoom, min_lat, min_lon, max_lat, max_lon) ==
    LET r == RawCrop(ts, zoom, min_lat, min_lon, max_lat, max_lon)
    IN [x1 |-> Clamp(r.x1, GridWidth(ts)), y1 |-> Clamp(r.y1, GridHeight(ts)),
        x2 |-> Clamp(r.x2, GridWidth(ts)), y2 |-> Clamp(r.y2, GridHeight(ts))]

\* if crop_x2 > crop_x1 and crop_y2 > crop_y1: crop, else the whole mosaic
Cropped(cells, ts, box) ==
    IF box.x2 > box.x1 /\ box.y2 > box.y1
    THEN Crop(cells, box.x1, box.y1, box.x2, box.y2)
    ELSE Crop(cells, 0, 0, GridWidth(ts), GridHeight(ts))

\* mutant: the crop is returned as it is
ResizedNever(img, target_width, target_height) == img

\* if cropped.size != (target_width, target_height): cropped = resize(...)
Resized(img, target_width, target_height) ==
    IF <<img.w, img.h>> # <<target_width, target_height>>
    THEN Resize(img, target_width, target_height)
    ELSE img

CropResize(cells, ts, zoom, b, target_width, target_height) ==
    Resized(Cropped(cells, ts,
                    CropBox(ts, zoom, b.min_lat, b.min_lon, b.max_lat, b.max_lon)),
            target_width, target_height)

\* ------------------------------------------------------------ annotations

\* A dict of the caller is a record; a key that may be absent has a flag
\* has_<key>.  A colour string is the sequence of its characters after
\* lstrip('#'): a hex digit is its value, any other character a value
\* outside HexDigits.
HexDigits == 0..15

\* hex_color[i:i+2], i counted from 0: a slice past the end is shorter
HexSlice(hex_color, i) ==
    SubSeq(hex_color, i + 1, Min2(i + 2, Len(hex_color)))

\* int(s, 16) raises ValueError on '' and on a character that is no digit
HexParses(s) == s # << >> /\ \A k \in DOMAIN s : s[k] \in HexDigits

\* int(s, 16) of one or two hex digits
HexInt(s) == IF Len(s) = 1 THEN s[1] ELSE 16 * s[1] + s[2]

\* _hex_to_rgb does not raise
HexOk(hex_color) == \A i \in {0, 2, 4} : HexParses(HexSlice(hex_color, i))

\* _hex_to_rgb: tuple(int(hex_color[i:i+2], 16) for i in (0, 2, 4))
HexToRgb(hex_color) ==
    << HexInt(HexSlice(hex_color, 0)),
       HexInt(HexSlice(hex_color, 2)),
       HexInt(HexSlice(hex_color, 4)) >>

\* feature['properties'].get('color', '#00FF00')
DefaultColor == << 0, 0, 15, 15, 0, 0 >>

\* _latlon_to_pixel divides by max_lon - min_lon and by max_lat - min_lat
ProjectionDefined(b) == b.max_lon # b.min_lon /\ b.max_lat # b.min_lat

\* Python int(n / d) for d # 0: truncation toward zero
TruncDiv(n, d) == IF d > 0 THEN Trunc(n, d) ELSE Trunc(-n, -d)

\* mutant: y grows with the latitude
LatLonToPixelNorthUp(lat, lon, b, image_size) ==
    << TruncDiv((lon - b.min_lon) * image_size[1], b.max_lon - b.min_lon),
       TruncDiv((lat - b.min_lat) * image_size[2], b.max_lat - b.min_lat) >>

\* _latlon_to_pixel: x = int(((lon - min_lon) / (max_lon - min_lon)) * width),
\* y = int(((max_lat - lat) / (max_lat - min_lat)) * height)
LatLonToPixel(lat, lon, b, image_size) ==
    << TruncDiv((lon - b.min_lon) * image_size[1], b.max_lon - b.min_lon),
       TruncDiv((b.max_lat - lat) * image_size[2], b.max_lat - b.min_lat) >>

\* the index of the first element of outs that is an exception, or Len + 1
FirstError(outs) ==
    LET bad == { k \in DOMAIN outs : outs[k] \notin {"skip", "draw"} }
    IN IF bad = {} THEN Len(outs) + 1
       ELSE CHOOSE k \in bad : \A j \in bad : k <= j

\* the exception that ends a loop whose iterations end as outs, or "none"
LoopError(outs) ==
    IF FirstError(outs) > Len(outs) THEN "none" ELSE outs[FirstError(outs)]

\* the indices of the iterations that drew, in order, before the exception
DrawnIndices(outs) ==
    SelectSeq([k \in 1..(FirstError(outs) - 1) |-> k],
              LAMBDA k : outs[k] = "draw")

\* for lon, lat in coords: x, y = self._latlon_to_pixel(...): the first
\* vertex is unpacked and projected before the second is unpacked
RingOutcome(ring, b) ==
    LET bad == { k \in DOMAIN ring : Len(ring[k]) # 2 }
    IN IF ring = << >> THEN "none"
       ELSE IF ~ProjectionDefined(b)
            THEN IF 1 \in bad THEN "ValueError" ELSE "ZeroDivisionError"
       ELSE IF bad # {} THEN "ValueError"
       ELSE "none"

\* mutant: a ring of two points is drawn
FeatureOutcomeTwo(feature, b) ==
    IF ~feature.has_geometry THEN "KeyError"
    ELSE IF feature.type # "Polygon" THEN "skip"
    ELSE IF ~feature.has_properties THEN "KeyError"
    ELSE IF RingOutcome(feature.ring, b) # "none"
         THEN RingOutcome(feature.ring, b)
    ELSE IF Len(feature.ring) < 2 THEN "skip"
    ELSE IF ~HexOk(IF feature.has_color THEN feature.color ELSE DefaultColor)
         THEN "ValueError"
    ELSE "draw"

\* one iteration of the loop of _draw_crop_areas
FeatureOutcome(feature, b) ==
    IF ~feature.has_geometry THEN "KeyError"
    ELSE IF feature.type # "Polygon" THEN "skip"
    ELSE IF ~feature.has_properties THEN "KeyError"
    ELSE IF RingOutcome(feature.ring, b) # "none"
         THEN RingOutcome(feature.ring, b)
    ELSE IF Len(feature.ring) < 3 THEN "skip"
    ELSE IF ~HexOk(IF feature.has_color THEN feature.color ELSE DefaultColor)
         THEN "ValueError"
    ELSE "draw"

\* draw.polygon(polygon_points, fill=rgb + (100,), outline=rgb + (180,), width=2)
DrawnPolygon(feature, k) ==
    LET rgb == HexToRgb(IF feature.has_color THEN feature.color ELSE DefaultColor)
    IN [kind |-> "polygon", index |-> k, points |-> Len(feature.ring),
        fill |-> rgb \o << 100 >>, outline |-> rgb \o << 180 >>]

\* _draw_crop_areas: what was drawn, and the exception that ended it
DrawCropAreas(crop_map_data, b) ==
    IF ~crop_map_data.truthy \/ ~crop_map_data.has_features
    THEN [drawn |-> << >>, err |-> "none"]
    ELSE LET fs == crop_map_data.features
             outs == [k \in DOMAIN fs |-> FeatureOutcome(fs[k], b)]
             ks == DrawnIndices(outs)
         IN [drawn |-> [j \in DOMAIN ks |-> DrawnPolygon(fs[ks[j]], ks[j])],
             err |-> LoopError(outs)]

\* _draw_boundary: the five corners are projected, then draw.line
DrawBoundary(b) ==
    IF ProjectionDefined(b)
    THEN [drawn |-> << [kind |-> "boundary", index |-> 0] >>, err |-> "none"]
    ELSE [drawn |-> << >>, err |-> "ZeroDivisionError"]

\* mutant: location['lat'] and location['lng'] instead of location.get
LabelOutcomeStrict(location, b) ==
    IF ~location.has_lat \/ ~location.has_lng THEN "KeyError"
    ELSE IF ~ProjectionDefined(b) THEN "ZeroDivisionError"
    ELSE "draw"

\* one iteration of the loop of _draw_location_labels
LabelOutcome(location, b) ==
    IF ~location.has_lat \/ ~location.has_lng THEN "skip"
    ELSE IF ~ProjectionDefined(b) THEN "ZeroDivisionError"
    ELSE "draw"

\* if location_labels: self._draw_location_labels(...)
DrawLocationLabels(location_labels, b) ==
    LET outs == [k \in DOMAIN location_labels |->
                    LabelOutcome(location_labels[k], b)]
        ks == DrawnIndices(outs)
    IN [drawn |-> [j \in DOMAIN ks |->
                     [kind |-> "label", index |-> ks[j],
                      name |-> IF location_labels[ks[j]].has_name
                               THEN location_labels[ks[j]].name ELSE ""]],
        err |-> LoopError(outs)]

\* one iteration of the loop of _draw_legend
StatOutcome(stat) ==
    IF ~stat.has_color THEN "KeyError"
    ELSE IF ~HexOk(stat.color) THEN "ValueError"
    ELSE IF ~stat.has_crop_name THEN "KeyError"
    ELSE "draw"

\* the swatch and the text of entry idx (counted from 0) of the legend
LegendEntry(stat, idx, image_width, y_offset) ==
    LET item_width == (image_width - 40) \div 3
    IN [idx |-> idx, col |-> idx % 3, row |-> idx \div 3,
        x |-> 20 + (idx % 3) * item_width,
        y |-> y_offset + 20 + 35 + (idx \div 3) * 40,
        color |-> HexToRgb(stat.color), text |-> stat.crop_name,
        area |-> stat.area_hectares]

\* _draw_legend
DrawLegend(area_statistics, image_width, y_offset) ==
    LET outs == [k \in DOMAIN area_statistics |-> StatOutcome(area_statistics[k])]
        ks == DrawnIndices(outs)
    IN [drawn |-> [j \in DOMAIN ks |->
                     LegendEntry(area_statistics[ks[j]], ks[j] - 1,
                                 image_width, y_offset)],
        err |-> LoopError(outs)]

\* mutant: the legend panel is not added below the map
FinalImageNoLegend(img) == img

\* final_image: (result.width, result.height + legend_height)
FinalImage(img) == [img EXCEPT !.h = img.h + legend_height]

\* Lines 64-82 of generate_annotated_satellite_image on the base raster
\* img: the overlay, the final image and its legend, or the first exception.
Drawing(a, b, img) ==
    LET crops == DrawCropAreas(a.crop_map_data, b)
        edge == DrawBoundary(b)
        marks == DrawLocationLabels(a.location_labels, b)
        rows == DrawLegend(a.area_statistics, img.w, img.h)
    IN IF crops.err # "none"
       THEN [err |-> crops.err, overlay |-> crops.drawn, entries |-> << >>]
       ELSE IF edge.err # "none"
       THEN [err |-> edge.err, overlay |-> crops.drawn, entries |-> << >>]
       ELSE IF marks.err # "none"
       THEN [err |-> marks.err,
             overlay |-> crops.drawn \o edge.drawn \o marks.drawn,
             entries |-> << >>]
       ELSE [err |-> rows.err,
             overlay |-> crops.drawn \o edge.drawn \o marks.drawn,
             entries |-> rows.drawn]

\* final_image.paste(result, (0, 0)) and self._draw_legend(final_image,
\* area_statistics, result.height): where the map and the legend lie
Panel(img, entries) ==
    [map_x |-> 0, map_y |-> 0, map_w |-> img.w, map_h |-> img.h,
     legend_top |-> img.h, entries |-> entries]

\* ------------------------------------------------------------------ bounds

\* @lru_cache(maxsize=500) on _fetch_tile_cached: the capacity of the cache,
\* scaled down so that an eviction happens within a few renders
lru_maxsize == 2
\* the calls of _latlon_to_pixel followed in one render
MaxPoints == 2
\* the renders followed from the call to the return, fetch by fetch
MaxLiveRenders == 2
\* the rasters that concurrent calls allocate in all
MaxRasters == 4
\* renders (calls of generate_annotated_satellite_image) in one run
MaxRenders == 3

\* ------------------------------------------------------------------- state

VARIABLES
    pc,         \* where the caller of generate_annotated_satellite_image is
    bounds,     \* [min_lat, min_lon, max_lat, max_lon] of the render
    width,      \* target width
    height,     \* target height
    level,      \* what _calculate_zoom_level returned
    zoom,       \* min(level, 15)
    tiles,      \* the tiles kept by _fetch_satellite_tiles, in order
    composite,  \* the mosaic: cell offset -> Gray or the tile bytes pasted
    futures,    \* per tile: the state of its future and what
                \* _fetch_tile_cached returned
    yielded,    \* the futures as_completed has handed to the caller
    netlog,     \* the cache keys for which this render issued a GET
    base,       \* satellite_base, the raster of _fetch_satellite_tiles
    final,      \* final_image
    err,        \* the exception that ended the render, or "none"
    cache,      \* the lru_cache of _fetch_tile_cached, least recent first
    fetchlog,   \* history: key -> what its first completed fetch returned
    renders,    \* renders started so far
    ann,        \* crop_map_data, location_labels, area_statistics of the call
    overlay,    \* what was drawn on the overlay, in order
    panel,      \* final_image: where the map and the legend entries lie
    pool,       \* the ThreadPoolExecutor of a render, its threads counted
    workers,    \* fetch layer: per worker thread, the fetch it is running
    sessions,   \* fetch layer: the threads whose thread-local has a session
    calls       \* concurrent calls: their frames, the rasters allocated so
                \* far and who wrote to which

\* the variables of the worker pool and of the fetch layer taken alone
aux == << pool, workers, sessions, calls >>

vars == << pc, bounds, width, height, level, zoom, tiles, composite, futures,
           yielded, netlog, base, final, err, cache, fetchlog, renders,
           ann, overlay, panel, aux >>

\* the annotations of a call and what the drawing steps made of them
annVars == << ann, overlay, panel >>

\* what a call fixes before its first fetch
callVars == << bounds, width, height, level, zoom, tiles >>

NoBounds == [min_lat |-> 0, min_lon |-> 0, max_lat |-> 0, max_lon |-> 0]
NoImage == [w |-> 0, h |-> 0, vals |-> {}]
NoPanel == [map_x |-> 0, map_y |-> 0, map_w |-> 0, map_h |-> 0,
            legend_top |-> 0, entries |-> << >>]

\* colour strings: '#FF0000', '#0000FF', 'red', '#0F0'
Red == << 15, 15, 0, 0, 0, 0 >>
Blue == << 0, 0, 0, 0, 15, 15 >>
NamedRed == << 27, 14, 13 >>
ShortGreen == << 0, 15, 0 >>

\* a GeoJSON feature of crop_map_data['features']
Feature(type, ring, color) ==
    [has_geometry |-> TRUE, type |-> type, ring |-> ring,
     has_properties |-> TRUE, has_color |-> TRUE, color |-> color]

\* the first n vertices (lon, lat) of a ring inside the boxes
Ring(n) == SubSeq(<< <<150, 150>>, <<350, 150>>, <<350, 350>>, <<150, 350>> >>, 1, n)

Triangle == Feature("Polygon", Ring(3), Red)
Quad == Feature("Polygon", Ring(4), Blue)
TwoPoints == Feature("Polygon", Ring(2), Red)
PointFeature == Feature("Point", << >>, Red)
\* no 'color' in properties; no 'properties'; no 'geometry'
NoColor == [Triangle EXCEPT !.has_color = FALSE]
NoProperties == [Triangle EXCEPT !.has_properties = FALSE]
NoGeometry == [Triangle EXCEPT !.has_geometry = FALSE]
\* a colour that is no hex string, on a ring that is drawn and on one that
\* is not; vertices with a third coordinate
NamedColor == Feature("Polygon", Ring(3), NamedRed)
TwoPointsNamed == Feature("Polygon", Ring(2), NamedRed)
Raised == Feature("Polygon",
                  << <<150, 150, 9>>, <<350, 150, 9>>, <<350, 350, 9>> >>, Red)

\* crop_map_data with these features
CropMap(features) == [truthy |-> TRUE, has_features |-> TRUE, features |-> features]

\* an entry of location_labels
Label(name) == [has_lat |-> TRUE, has_lng |-> TRUE, has_name |-> TRUE, name |-> name]
NoLat == [Label("b") EXCEPT !.has_lat = FALSE]
NoLng == [Label("c") EXCEPT !.has_lng = FALSE]
NoName == [Label("") EXCEPT !.has_name = FALSE]

\* an entry of area_statistics
Stat(crop_name, color, area_hectares) ==
    [has_color |-> TRUE, color |-> color, has_crop_name |-> TRUE,
     crop_name |-> crop_name, area_hectares |-> area_hectares]
Rice == Stat("rice", Red, 30)
Wheat == Stat("wheat", Blue, 50)
StatNoColor == [Rice EXCEPT !.has_color = FALSE]
StatNoName == [Wheat EXCEPT !.has_crop_name = FALSE]
StatNamedColor == Stat("maize", NamedRed, 10)

Annotations(crop_map_data, location_labels, area_statistics) ==
    [crop_map_data |-> crop_map_data, location_labels |-> location_labels,
     area_statistics |-> area_statistics]

NoAnn == Annotations([truthy |-> FALSE, has_features |-> FALSE, features |-> << >>],
                     << >>, << >>)

\* what the caller in app.py passes: a crop map, statistics, labels
PlainAnn == Annotations(CropMap(<< Triangle >>), << Label("a") >>, << Rice, Wheat >>)

\* response.content of a 200 answer: a tile image (two versions of the
\* bytes, so that equal bytes are not equal by construction), bytes that are
\* no image, an image whose data is cut short, and an empty body
Bodies == {"img1", "img2", "junk", "trunc", "empty"}
None == "None"

Box(min_lat, min_lon, max_lat, max_lon) ==
    [min_lat |-> min_lat, min_lon |-> min_lon,
     max_lat |-> max_lat, max_lon |-> max_lon]

\* The bounding boxes of the renders: inside one tile of zoom 15, over two
\* tiles, in a third tile; then min_lat = max_lat inside a tile, min_lat >
\* max_lat over two rows, min_lat > max_lat inside one row, and min_lat =
\* max_lat on a row boundary.
Boxes ==
    { Box(100, 100, 400, 500), Box(100, 1900, 400, 2300),
      Box(100, 4200, 400, 4500),
      Box(100, 100, 100, 500), Box(3000, 100, 100, 500),
      Box(400, 100, 100, 500), Box(0, 100, 0, 500) }

Sizes == { <<1024, 768>> }

AnnInputs == { PlainAnn }

\* no executor: no task, no thread
NoPool == [n |-> 0, queued |-> 0, fresh |-> 0, busy |-> 0, used |-> 0, done |-> 0,
           sessions |-> 0, conns |-> 0]

\* the threads that call generate_annotated_satellite_image at the same
\* time (request threads of the server), and the frame of a call: the
\* rasters its local variables composite and overlay name (0: none), the
\* tasks not yet returned and the results not yet taken by the loop
Callers == {"caller1", "caller2"}
NoFrame == [pc |-> "idle", composite |-> 0, overlay |-> 0, pending |-> 0, ready |-> 0]
NoCalls == [frame |-> [c \in Callers |-> NoFrame], next |-> 1, writes |-> {}]

\* the worker threads of the fetch layer, and a thread between two tasks:
\* sess is the session the running fetch got from _get_session, named by
\* the thread that created it (0: none), made counts the sessions the
\* thread has created
Threads == {1, 2}
Idle == [st |-> "idle", key |-> << >>, attempt |-> 0, last |-> "none",
         content |-> None, missed |-> FALSE, sess |-> 0, made |-> 0]


\* ------------------------------------------------------------- lru_cache

CacheKeys(c) == { c[k].key : k \in DOMAIN c }
CacheIndex(c, key) == CHOOSE k \in DOMAIN c : c[k].key = key
CacheValue(c, key) == c[CacheIndex(c, key)].val

RemoveAt(c, k) == SubSeq(c, 1, k - 1) \o SubSeq(c, k + 1, Len(c))

\* a hit moves the entry to the most recently used end
CacheTouch(c, key) ==
    Append(RemoveAt(c, CacheIndex(c, key)), c[CacheIndex(c, key)])

\* mutant: a full cache drops its most recently used entry
CacheStoreDropNewest(c, key, val) ==
    IF key \in CacheKeys(c) THEN c
    ELSE IF Len(c) >= lru_maxsize
         THEN Append(SubSeq(c, 1, Len(c) - 1), [key |-> key, val |-> val])
         ELSE Append(c, [key |-> key, val |-> val])

\* mutant: the result is stored without looking for the key again
CacheStoreBlind(c, key, val) ==
    IF Len(c) >= lru_maxsize
    THEN Append(Tail(c), [key |-> key, val |-> val])
    ELSE Append(c, [key |-> key, val |-> val])

\* after the call: a key stored meanwhile is left as it is; a full cache
\* drops its least recently used entry
CacheStore(c, key, val) ==
    IF key \in CacheKeys(c) THEN c
    ELSE IF Len(c) >= lru_maxsize
         THEN Append(Tail(c), [key |-> key, val |-> val])
         ELSE Append(c, [key |-> key, val |-> val])

\* ------------------------------------------------------------ tile fetch

Key(tile) == << tile.z, tile.y, tile.x >>

\* _fetch_single_tile: if tile_content: Image.open(...) -> (image, x, y);
\* empty bytes and None are falsy, Image.open raises on bytes that are no
\* image (caught: None).  Image.open reads the header only, so an image
\* whose data is cut short is returned like a whole one.
TileResult(content) ==
    IF content \in {None, "empty", "junk"} THEN None ELSE content

Busy == { i \in DOMAIN futures : futures[i].st \in {"running", "requesting"} }
AllDone == \A i \in DOMAIN futures : futures[i].st = "done"

LogFetch(key, content) ==
    IF key \in DOMAIN fetchlog THEN fetchlog
    ELSE [k \in DOMAIN fetchlog \cup {key} |->
            IF k = key THEN content ELSE fetchlog[k]]

\* A worker of the pool takes the next task of the queue.
Start(i) ==
    /\ pc \in {"fetching", "unwinding"}
    /\ futures[i].st = "pending"
    /\ \A j \in 1..(i - 1) : futures[j].st # "pending"
    /\ Cardinality(Busy) < max_workers
    /\ futures' = [futures EXCEPT ![i].st = "running"]
    /\ UNCHANGED << pc, callVars, composite, yielded,
                    netlog, base, final, err, cache, fetchlog, renders, annVars, aux >>

\* mutant: the cache is not consulted and the request is issued again
LookupRefetch(i) ==
    /\ futures[i].st = "running"
    /\ Key(tiles[i]) \in CacheKeys(cache)
    /\ futures' = [futures EXCEPT ![i].st = "requesting"]
    /\ netlog' = netlog \cup {Key(tiles[i])}
    /\ UNCHANGED << pc, callVars, composite, yielded,
                    base, final, err, cache, fetchlog, renders, annVars, aux >>

\* _fetch_tile_cached, the key is in the cache: the cached value is returned
LookupHit(i) ==
    /\ futures[i].st = "running"
    /\ Key(tiles[i]) \in CacheKeys(cache)
    /\ futures' = [futures EXCEPT ![i] =
                     [st |-> "done", content |-> CacheValue(cache, Key(tiles[i]))]]
    /\ cache' = CacheTouch(cache, Key(tiles[i]))
    /\ UNCHANGED << pc, callVars, composite, yielded,
                    netlog, base, final, err, fetchlog, renders, annVars, aux >>

\* _fetch_tile_cached, a miss: session.get(tile_url, timeout=3) is issued
LookupMiss(i) ==
    /\ futures[i].st = "running"
    /\ Key(tiles[i]) \notin CacheKeys(cache)
    /\ futures' = [futures EXCEPT ![i].st = "requesting"]
    /\ netlog' = netlog \cup {Key(tiles[i])}
    /\ UNCHANGED << pc, callVars, composite, yielded,
                    base, final, err, cache, fetchlog, renders, annVars, aux >>

\* the function returns content, the cache stores it, _fetch_single_tile
\* builds its result and the future is done
Returned(i, content) ==
    /\ futures' = [futures EXCEPT ![i] = [st |-> "done", content |-> content]]
    /\ cache' = CacheStore(cache, Key(tiles[i]), content)
    /\ fetchlog' = LogFetch(Key(tiles[i]), content)
    /\ UNCHANGED << pc, callVars, composite, yielded,
                    netlog, base, final, err, renders, annVars, aux >>

\* response.status_code == 200: return response.content
Respond200(i) ==
    /\ futures[i].st = "requesting"
    /\ \E body \in Bodies : Returned(i, body)

\* any other status: return None
RespondStatus(i) ==
    /\ futures[i].st = "requesting"
    /\ Returned(i, None)

\* timeout, connection error, retries exhausted: except Exception -> None
RespondException(i) ==
    /\ futures[i].st = "requesting"
    /\ Returned(i, None)

\* ------------------------------------ generate_annotated_satellite_image

Init ==
    /\ pc = "idle"
    /\ bounds = NoBounds
    /\ width = 0
    /\ height = 0
    /\ level = 0
    /\ zoom = 0
    /\ tiles = << >>
    /\ composite = << >>
    /\ futures = << >>
    /\ yielded = {}
    /\ netlog = {}
    /\ base = NoImage
    /\ final = NoImage
    /\ err = "none"
    /\ cache = << >>
    /\ fetchlog = << >>
    /\ renders = 0
    /\ ann = NoAnn
    /\ overlay = << >>
    /\ panel = NoPanel
    /\ pool = NoPool
    /\ workers = [t \in Threads |-> Idle]
    /\ sessions = {}
    /\ calls = NoCalls

\* The call up to the end of the submit loop: the zoom, the tile list, its
\* truncation, the gray mosaic, and one future per kept tile.  With no tile
\* _fetch_satellite_tiles returns the gray raster at once.
Enter(b, w, h) ==
    LET lv == CalculateZoomLevel(b.min_lat, b.min_lon, b.max_lat, b.max_lon, w, h)
        z == Min2(lv, clamp_zoom)
        ts == TileList(b.min_lat, b.min_lon, b.max_lat, b.max_lon, z)
    IN /\ bounds' = b
       /\ width' = w
       /\ height' = h
       /\ level' = lv
       /\ zoom' = z
       /\ tiles' = ts
       /\ yielded' = {}
       /\ netlog' = {}
       /\ final' = NoImage
       /\ err' = "none"
       /\ overlay' = << >>
       /\ panel' = NoPanel
       /\ IF Len(ts) = 0
          THEN /\ composite' = << >>
               /\ futures' = << >>
               /\ base' = ImageNew(w, h)
               /\ pc' = "overlay"
          ELSE /\ composite' = [c \in Cells(GridCols(ts), GridRows(ts)) |-> Gray]
               /\ futures' = [i \in DOMAIN ts |-> [st |-> "pending", content |-> None]]
               /\ base' = NoImage
               /\ pc' = "fetching"

Call(b, w, h, a) ==
    /\ pc = "idle"
    /\ renders < MaxRenders
    /\ renders' = renders + 1
    /\ ann' = a
    /\ Enter(b, w, h)
    /\ UNCHANGED << cache, fetchlog, aux >>

\* for future in as_completed(futures): result = future.result(), None
YieldNone(i) ==
    /\ pc = "fetching"
    /\ i \notin yielded
    /\ futures[i].st = "done"
    /\ TileResult(futures[i].content) = None
    /\ yielded' = yielded \cup {i}
    /\ UNCHANGED << pc, callVars, composite, futures,
                    netlog, base, final, err, cache, fetchlog, renders, annVars, aux >>

\* composite.paste(tile_image, (x_offset, y_offset))
YieldPaste(i) ==
    /\ pc = "fetching"
    /\ i \notin yielded
    /\ futures[i].st = "done"
    /\ TileResult(futures[i].content) \notin {None, "trunc"}
    /\ yielded' = yielded \cup {i}
    /\ composite' = Paste(composite, TileResult(futures[i].content),
                          XOffset(tiles[i], MinX(tiles)),
                          YOffset(tiles[i], MinY(tiles)))
    /\ UNCHANGED << pc, callVars, futures,
                    netlog, base, final, err, cache, fetchlog, renders, annVars, aux >>

\* composite.paste loads the pixel data of the image: data cut short
\* raises OSError in the caller, outside every try; the with block then
\* waits for the pool before the exception leaves
YieldRaise(i) ==
    /\ pc = "fetching"
    /\ i \notin yielded
    /\ futures[i].st = "done"
    /\ TileResult(futures[i].content) = "trunc"
    /\ yielded' = yielded \cup {i}
    /\ err' = "OSError"
    /\ pc' = "unwinding"
    /\ UNCHANGED << callVars, composite, futures,
                    netlog, base, final, cache, fetchlog, renders, annVars, aux >>

\* executor.__exit__ -> shutdown(wait=True), then the exception propagates
Unwind ==
    /\ pc = "unwinding"
    /\ AllDone
    /\ pc' = "raised"
    /\ UNCHANGED << callVars, composite, futures,
                    yielded, netlog, base, final, err, cache, fetchlog, renders, annVars, aux >>

\* mutant: the loop is left after the first future
ExitPoolFirst ==
    /\ pc = "fetching"
    /\ yielded # {}
    /\ pc' = "cropping"
    /\ UNCHANGED << callVars, composite, futures,
                    yielded, netlog, base, final, err, cache, fetchlog, renders, annVars, aux >>

\* as_completed is exhausted and the with block is left
ExitPool ==
    /\ pc = "fetching"
    /\ yielded = DOMAIN futures
    /\ pc' = "cropping"
    /\ UNCHANGED << callVars, composite, futures,
                    yielded, netlog, base, final, err, cache, fetchlog, renders, annVars, aux >>

\* crop, resize, return cropped
CropAndReturn ==
    /\ pc = "cropping"
    /\ base' = CropResize(composite, tiles, zoom, bounds, width, height)
    /\ pc' = "overlay"
    /\ UNCHANGED << callVars, composite, futures,
                    yielded, netlog, final, err, cache, fetchlog, renders, annVars, aux >>

\* lines 64-82: the overlay, _draw_crop_areas, _draw_boundary, the labels,
\* alpha_composite, final_image and _draw_legend, none of which raises
Compose ==
    /\ pc = "overlay"
    /\ Drawing(ann, bounds, base).err = "none"
    /\ overlay' = Drawing(ann, bounds, base).overlay
    /\ final' = FinalImage(base)
    /\ panel' = Panel(base, Drawing(ann, bounds, base).entries)
    /\ pc' = "done"
    /\ UNCHANGED << callVars, composite, futures, yielded, netlog, base, err,
                    cache, fetchlog, renders, ann, aux >>

\* one of the drawing steps raises: KeyError or ValueError on an item of
\* the caller, ZeroDivisionError in _latlon_to_pixel
ComposeRaise ==
    /\ pc = "overlay"
    /\ Drawing(ann, bounds, base).err # "none"
    /\ overlay' = Drawing(ann, bounds, base).overlay
    /\ err' = Drawing(ann, bounds, base).err
    /\ pc' = "raised"
    /\ UNCHANGED << callVars, composite, futures, yielded, netlog, base, final,
                    cache, fetchlog, renders, ann, panel, aux >>

\* the call is over (an image or an exception); the next one may start
Return ==
    /\ pc \in {"done", "raised"}
    /\ pc' = "idle"
    /\ bounds' = NoBounds
    /\ width' = 0
    /\ height' = 0
    /\ level' = 0
    /\ zoom' = 0
    /\ tiles' = << >>
    /\ composite' = << >>
    /\ futures' = << >>
    /\ yielded' = {}
    /\ netlog' = {}
    /\ base' = NoImage
    /\ final' = NoImage
    /\ err' = "none"
    /\ ann' = NoAnn
    /\ overlay' = << >>
    /\ panel' = NoPanel
    /\ UNCHANGED << cache, fetchlog, renders, aux >>

Worker == \E i \in DOMAIN futures : Start(i)
Hit == \E i \in DOMAIN futures : LookupHit(i)
Miss == \E i \in DOMAIN futures : LookupMiss(i)
Ok200 == \E i \in DOMAIN futures : Respond200(i)
BadStatus == \E i \in DOMAIN futures : RespondStatus(i)
Failed == \E i \in DOMAIN futures : RespondException(i)
SkipNone == \E i \in DOMAIN futures : YieldNone(i)
PasteTile == \E i \in DOMAIN futures : YieldPaste(i)
PasteRaise == \E i \in DOMAIN futures : YieldRaise(i)
Render == \E b \in Boxes, sz \in Sizes, a \in AnnInputs : Call(b, sz[1], sz[2], a)

Next ==
    \/ Render
    \/ Worker
    \/ Hit
    \/ Miss
    \/ Ok200
    \/ BadStatus
    \/ Failed
    \/ SkipNone
    \/ PasteTile
    \/ PasteRaise
    \/ Unwind
    \/ ExitPool
    \/ CropAndReturn
    \/ Compose
    \/ ComposeRaise
    \/ Return

Spec == Init /\ [][Next]_vars

\* ------------------------------------------------- one render, any extent

\* The bounding boxes of SpecGeom: those of Spec; a box three units wide
\* (its crop is empty after truncation to pixels); boxes over a tile
\* boundary of zoom 18; a box wider than half the world (no zoom fits a
\* small target, and zoom 10 gives more than 50 tiles); min_lon > max_lon
\* (mercantile splits it at the antimeridian); min_lon = max_lon.
GeomBoxes ==
    Boxes \cup
    { Box(100, 100, 400, 103), Box(100, 250, 110, 260),
      Box(100, 250, 400, 1274), Box(-70000, -17000000, 70000, 17000000),
      Box(100, 500, 400, 100), Box(100, 2048, 400, 2048),
      Box(100, 300, 400, 300) }

GeomSizes == { <<1024, 768>>, <<2048, 1536>>, <<256, 256>> }

\* the feature lists, label lists and statistics lists of the renders: well
\* formed ones, items the loops skip, and items with a key missing, a
\* colour that is no hex string or vertices that are no pairs
FeatureLists ==
    { << >>, << Triangle >>, << TwoPoints, Triangle >>,
      << Triangle, TwoPoints, Quad >>, << PointFeature, Quad >>,
      << NoColor >>, << TwoPointsNamed, Triangle >>,
      << NoGeometry, Triangle >>, << Triangle, NoProperties, Quad >>,
      << Triangle, NamedColor >>, << Raised >>,
      << Feature("Polygon", Ring(3), ShortGreen) >>,
      << Feature("Polygon", Ring(0), Red), Quad, Feature("Polygon", Ring(1), Blue) >> }

LabelLists ==
    { << >>, << Label("a") >>, << NoLat, Label("a") >>,
      << Label("a"), NoLng, Label("d") >>, << NoName >> }

StatLists ==
    { << >>, << Rice >>, << Rice, Wheat, Rice, Wheat >>,
      [k \in 1..13 |-> IF k % 2 = 1 THEN Rice ELSE Wheat],
      << StatNoColor, Rice >>, << Rice, StatNoName >>, << StatNamedColor >> }

GeomAnnInputs ==
    { NoAnn, PlainAnn,
      Annotations(CropMap(<< TwoPoints, Triangle >>),
                  << Label("a"), NoLat, NoLng, Label("d") >>, << Rice, Wheat >>) }
    \cup { Annotations(CropMap(fs), << Label("a") >>, << Rice >>) : fs \in FeatureLists }
    \cup { Annotations(CropMap(<< Triangle >>), ls, << Rice >>) : ls \in LabelLists }
    \cup { Annotations(CropMap(<< Triangle >>), << Label("a") >>, ss) : ss \in StatLists }

\* What the fetches of one render return, tile by tile: all tiles, no tile,
\* the first tile only, bytes that are no image among images, and an image
\* whose data is cut short.
Patterns(n) ==
    { [i \in 1..n |-> "img1"],
      [i \in 1..n |-> None],
      [i \in 1..n |-> IF i = 1 THEN "img2" ELSE None],
      [i \in 1..n |-> IF i % 2 = 0 THEN "junk" ELSE "img1"],
      [i \in 1..n |-> IF i = n THEN "trunc" ELSE "img1"] }

\* the index of the first tile whose paste raises, or Len + 1
FirstRaise(contents) ==
    LET bad == { k \in DOMAIN contents : TileResult(contents[k]) = "trunc" }
    IN IF bad = {} THEN Len(contents) + 1
       ELSE CHOOSE k \in bad : \A j \in bad : k <= j

\* the pastes of the as_completed loop, for futures that complete in the
\* order of submission, up to the first paste that raises: a cell shows
\* the last image pasted at its offset
PasteAll(cells, ts, contents) ==
    LET min_x == MinX(ts)
        min_y == MinY(ts)
        stop == FirstRaise(contents)
        At(c) == { k \in 1..(stop - 1) :
                     /\ TileResult(contents[k]) # None
                     /\ <<XOffset(ts[k], min_x), YOffset(ts[k], min_y)>> = c }
    IN [c \in DOMAIN cells |->
          IF At(c) = {} THEN cells[c]
          ELSE TileResult(contents[CHOOSE k \in At(c) : \A j \in At(c) : k >= j])]

\* the stores of the fetches of distinct keys into an empty cache, in the
\* order of submission: the last lru_maxsize entries stay
StoreAll(ts, contents) ==
    LET n == Len(ts)
        from == Max2(1, n - lru_maxsize + 1)
    IN [k \in 1..(n - from + 1) |->
          [key |-> Key(ts[from + k - 1]), val |-> contents[from + k - 1]]]

GeomCall(b, w, h, a) ==
    /\ pc = "idle"
    /\ renders = 0
    /\ renders' = 1
    /\ ann' = a
    /\ Enter(b, w, h)
    /\ UNCHANGED << cache, fetchlog, aux >>

\* the with block of _fetch_satellite_tiles as one step: every future is
\* run (from an empty cache) and handed to the loop
FetchAll ==
    /\ pc = "fetching"
    /\ cache = << >>
    /\ \E contents \in Patterns(Len(tiles)) :
         /\ futures' = [i \in DOMAIN tiles |-> [st |-> "done", content |-> contents[i]]]
         /\ yielded' = DOMAIN tiles
         /\ netlog' = { Key(tiles[i]) : i \in DOMAIN tiles }
         /\ cache' = StoreAll(tiles, contents)
         /\ composite' = PasteAll(composite, tiles, contents)
         /\ IF \E i \in DOMAIN tiles : TileResult(contents[i]) = "trunc"
            THEN err' = "OSError" /\ pc' = "raised"
            ELSE err' = err /\ pc' = "cropping"
    /\ UNCHANGED << callVars, base, final, fetchlog, renders, annVars, aux >>

GeomRender ==
    \E b \in GeomBoxes, sz \in GeomSizes, a \in GeomAnnInputs :
        GeomCall(b, sz[1], sz[2], a)

NextGeom ==
    \/ GeomRender
    \/ FetchAll
    \/ CropAndReturn
    \/ Compose
    \/ ComposeRaise
    \/ Return

SpecGeom == Init /\ [][NextGeom]_vars

\* ------------------------------------------------------------ worker pool

\* The ThreadPoolExecutor of one render with its threads counted instead
\* of named: n tasks submitted, queued of them not yet taken, fresh threads
\* that have not run a task yet, busy threads, used threads that wait for
\* a task, done tasks; sessions created by _get_session and connections
\* that these sessions hold.  The render is the first of the process: the
\* cache is empty and every task goes to the network.

\* what every variable but pool keeps
renderVars == << pc, bounds, width, height, level, zoom, tiles, composite,
                 futures, yielded, netlog, base, final, err, cache, fetchlog,
                 renders, annVars, calls >>

\* the numbers of tiles that the renders of the model submit
PoolTasks ==
    { KeptCount(b.min_lat, b.min_lon, b.max_lat, b.max_lon,
                Min2(CalculateZoomLevel(b.min_lat, b.min_lon, b.max_lat, b.max_lon,
                                        sz[1], sz[2]), clamp_zoom)) :
        b \in GeomBoxes, sz \in GeomSizes } \ {0}

\* mutant: one thread per submitted task
PoolThreadsAll(n) == n

\* ThreadPoolExecutor(max_workers=20): submit starts a thread while fewer
\* than max_workers exist and none is idle
PoolThreads(n) == Min2(n, max_workers)

\* with ThreadPoolExecutor(...) as executor: futures = {executor.submit(...)}
PoolSubmit(n) ==
    /\ pool = NoPool
    /\ pool' = [NoPool EXCEPT !.n = n, !.queued = n, !.fresh = PoolThreads(n)]
    /\ UNCHANGED << renderVars, workers, sessions >>

\* a thread that has run no task takes one: its first _fetch_tile_cached
\* misses, _get_session finds no session in its thread-local and creates
\* one, and session.get opens a connection in the pool of that session
PoolTakeFresh ==
    /\ pool.queued > 0
    /\ pool.fresh > 0
    /\ pool' = [pool EXCEPT !.queued = @ - 1, !.fresh = @ - 1, !.busy = @ + 1,
                            !.sessions = @ + 1, !.conns = @ + 1]
    /\ UNCHANGED << renderVars, workers, sessions >>

\* mutant: a session is created for every task
PoolTakeUsedNewSession ==
    /\ pool.queued > 0
    /\ pool.used > 0
    /\ pool' = [pool EXCEPT !.queued = @ - 1, !.used = @ - 1, !.busy = @ + 1,
                            !.sessions = @ + 1, !.conns = @ + 1]
    /\ UNCHANGED << renderVars, workers, sessions >>

\* a thread that has run a task takes the next: _get_session returns the
\* session of the thread, session.get reuses its connection
PoolTakeUsed ==
    /\ pool.queued > 0
    /\ pool.used > 0
    /\ pool' = [pool EXCEPT !.queued = @ - 1, !.used = @ - 1, !.busy = @ + 1]
    /\ UNCHANGED << renderVars, workers, sessions >>

\* _fetch_single_tile returns; the connection goes back to the pool of the
\* session and stays open
PoolFinish ==
    /\ pool.busy > 0
    /\ pool' = [pool EXCEPT !.busy = @ - 1, !.used = @ + 1, !.done = @ + 1]
    /\ UNCHANGED << renderVars, workers, sessions >>

\* the with block is left: the threads end and their sessions with them
PoolShutdown ==
    /\ pool.n > 0
    /\ pool.done = pool.n
    /\ pool' = NoPool
    /\ UNCHANGED << renderVars, workers, sessions >>

PoolRender == \E n \in PoolTasks : PoolSubmit(n)

NextPool ==
    \/ PoolRender
    \/ PoolTakeFresh
    \/ PoolTakeUsed
    \/ PoolFinish
    \/ PoolShutdown

SpecPool == Init /\ [][NextPool]_vars

\* ----------------------------------------------- worker threads, fetches

\* The worker threads of the pools run _fetch_single_tile concurrently; the
\* cache is shared by all of them, the session is thread-local.  A thread is
\* idle, in the cache lookup of _fetch_tile_cached, in an HTTP attempt of
\* session.get, or done with the task's result.

FetchKeys == { << 15, 16383, 16384 >>, << 15, 16383, 16385 >>,
               << 15, 16383, 16386 >> }
FetchBodies == {"img1", "img2"}

fetchVars == << pc, bounds, width, height, level, zoom, tiles, composite,
                futures, yielded, netlog, base, final, err, fetchlog,
                renders, annVars, pool, calls >>

\* executor.submit(self._fetch_single_tile, tile) reaches a worker thread:
\* every tile of a render is submitted, cached or not
FetchTake(t, key) ==
    /\ workers[t].st = "idle"
    /\ workers' = [workers EXCEPT ![t] = [Idle EXCEPT !.st = "lookup",
                                                      !.key = key,
                                                      !.made = workers[t].made]]
    /\ UNCHANGED << cache, sessions, fetchVars >>

\* mutant: the session is obtained before the cache is looked up
FetchHitWithSession(t) ==
    /\ workers[t].st = "lookup"
    /\ workers[t].key \in CacheKeys(cache)
    /\ workers' = [workers EXCEPT ![t].st = "done",
                                  ![t].content = CacheValue(cache, workers[t].key)]
    /\ cache' = CacheTouch(cache, workers[t].key)
    /\ sessions' = sessions \cup {t}
    /\ UNCHANGED fetchVars

\* lru_cache hit: the stored result is returned, the body of
\* _fetch_tile_cached does not run
FetchHit(t) ==
    /\ workers[t].st = "lookup"
    /\ workers[t].key \in CacheKeys(cache)
    /\ workers' = [workers EXCEPT ![t].st = "done",
                                  ![t].content = CacheValue(cache, workers[t].key)]
    /\ cache' = CacheTouch(cache, workers[t].key)
    /\ UNCHANGED << sessions, fetchVars >>

\* mutant: the session is kept on the generator, not in the thread-local:
\* the first session created serves every thread
FetchMissSharedSession(t) ==
    /\ workers[t].st = "lookup"
    /\ workers[t].key \notin CacheKeys(cache)
    /\ workers' = [workers EXCEPT
                     ![t].st = "attempt", ![t].attempt = 1, ![t].missed = TRUE,
                     ![t].sess = IF sessions = {} THEN t
                                 ELSE CHOOSE s \in sessions : TRUE,
                     ![t].made = IF sessions = {} THEN @ + 1 ELSE @]
    /\ sessions' = IF sessions = {} THEN {t} ELSE sessions
    /\ UNCHANGED << cache, fetchVars >>

\* lru_cache miss: the body runs, _get_session creates the thread's session
\* if its thread-local has none and returns the thread's session,
\* session.get makes the first attempt
FetchMiss(t) ==
    /\ workers[t].st = "lookup"
    /\ workers[t].key \notin CacheKeys(cache)
    /\ workers' = [workers EXCEPT
                     ![t].st = "attempt", ![t].attempt = 1, ![t].missed = TRUE,
                     ![t].sess = t,
                     ![t].made = IF t \in sessions THEN @ ELSE @ + 1]
    /\ sessions' = sessions \cup {t}
    /\ UNCHANGED << cache, fetchVars >>

\* status 200: response.content is returned and stored
FetchOk(t, body) ==
    /\ workers[t].st = "attempt"
    /\ workers' = [workers EXCEPT ![t].st = "done", ![t].last = "200",
                                  ![t].content = body]
    /\ cache' = CacheStore(cache, workers[t].key, body)
    /\ UNCHANGED << sessions, fetchVars >>

\* a status that is neither 200 nor in status_forcelist: None is returned
\* and stored
FetchOtherStatus(t) ==
    /\ workers[t].st = "attempt"
    /\ workers' = [workers EXCEPT ![t].st = "done", ![t].last = "status",
                                  ![t].content = None]
    /\ cache' = CacheStore(cache, workers[t].key, None)
    /\ UNCHANGED << sessions, fetchVars >>

\* mutant: the adapter retries without a limit
FetchTransientUnlimited(t) ==
    /\ workers[t].st = "attempt"
    /\ workers' = [workers EXCEPT ![t].attempt = @ + 1, ![t].last = "transient"]
    /\ UNCHANGED << cache, sessions, fetchVars >>

\* a status of status_forcelist, a timeout or a connection error while
\* retries are left: the adapter makes another attempt
FetchTransient(t) ==
    /\ workers[t].st = "attempt"
    /\ workers[t].attempt <= retry_total
    /\ workers' = [workers EXCEPT ![t].attempt = @ + 1, ![t].last = "transient"]
    /\ UNCHANGED << cache, sessions, fetchVars >>

\* the same failure with no retry left: session.get raises, the except
\* clause returns None, which is stored
FetchExhausted(t) ==
    /\ workers[t].st = "attempt"
    /\ workers[t].attempt = retry_total + 1
    /\ workers' = [workers EXCEPT ![t].st = "done", ![t].last = "transient",
                                  ![t].content = None]
    /\ cache' = CacheStore(cache, workers[t].key, None)
    /\ UNCHANGED << sessions, fetchVars >>

\* an exception outside the adapter's retries (reading the body): the
\* except clause returns None, which is stored
FetchError(t) ==
    /\ workers[t].st = "attempt"
    /\ workers' = [workers EXCEPT ![t].st = "done", ![t].last = "error",
                                  ![t].content = None]
    /\ cache' = CacheStore(cache, workers[t].key, None)
    /\ UNCHANGED << sessions, fetchVars >>

\* the task's future resolves; the thread keeps its session
FetchRelease(t) ==
    /\ workers[t].st = "done"
    /\ workers' = [workers EXCEPT ![t] = [Idle EXCEPT !.made = workers[t].made]]
    /\ UNCHANGED << cache, sessions, fetchVars >>

NextFetch ==
    \/ \E t \in Threads, key \in FetchKeys : FetchTake(t, key)
    \/ \E t \in Threads : FetchHit(t)
    \/ \E t \in Threads : FetchMiss(t)
    \/ \E t \in Threads, body \in FetchBodies : FetchOk(t, body)
    \/ \E t \in Threads : FetchOtherStatus(t)
    \/ \E t \in Threads : FetchTransient(t)
    \/ \E t \in Threads : FetchExhausted(t)
    \/ \E t \in Threads : FetchError(t)
    \/ \E t \in Threads : FetchRelease(t)

SpecFetch == Init /\ [][NextFetch]_vars

\* ------------------------------------------------------- _latlon_to_pixel

\* One render whose drawing steps are followed call by call: each call of
\* _latlon_to_pixel, for a vertex, a corner of the boundary or a label,
\* leaves the point and its pixel on the overlay.

\* a box of 400 by 300 units, a box whose sides divide nothing evenly, a box
\* with min_lat = max_lat, one with min_lon = max_lon, one with min_lat >
\* max_lat
PixelBoxes ==
    { Box(100, 100, 400, 500), Box(100, 100, 407, 503),
      Box(100, 100, 100, 500), Box(100, 300, 400, 300),
      Box(400, 100, 100, 500) }

PixelSizes == { <<1024, 768>>, <<256, 256>> }

\* the corners of the boxes, points inside them and points outside them
PixelLats == {50, 100, 233, 400, 407}
PixelLons == {97, 100, 233, 500, 503, 600}

PixelRender ==
    \E b \in PixelBoxes, sz \in PixelSizes : GeomCall(b, sz[1], sz[2], NoAnn)

\* x, y = self._latlon_to_pixel(lat, lon, bounds, image_size)
Project(lat, lon) ==
    /\ pc = "overlay"
    /\ Len(overlay) < MaxPoints
    /\ ProjectionDefined(bounds)
    /\ overlay' = Append(overlay,
                         [kind |-> "point", lat |-> lat, lon |-> lon,
                          x |-> LatLonToPixel(lat, lon, bounds, <<base.w, base.h>>)[1],
                          y |-> LatLonToPixel(lat, lon, bounds, <<base.w, base.h>>)[2]])
    /\ UNCHANGED << pc, callVars, composite, futures, yielded, netlog, base,
                    final, err, cache, fetchlog, renders, ann, panel, aux >>

\* the division by max_lon - min_lon or by max_lat - min_lat raises
ProjectRaise ==
    /\ pc = "overlay"
    /\ ~ProjectionDefined(bounds)
    /\ err' = "ZeroDivisionError"
    /\ pc' = "raised"
    /\ UNCHANGED << callVars, composite, futures, yielded, netlog, base,
                    final, cache, fetchlog, renders, annVars, aux >>

ProjectPoint == \E lat \in PixelLats, lon \in PixelLons : Project(lat, lon)

NextPixel ==
    \/ PixelRender
    \/ FetchAll
    \/ CropAndReturn
    \/ ProjectPoint
    \/ ProjectRaise
    \/ Return

SpecPixel == Init /\ [][NextPixel]_vars

\* ----------------------------------------- a render, its pool, its fetches

\* The renders of Spec with the worker threads of the fetch layer as their
\* pool: a task waits in the queue until a thread is idle, the thread runs
\* its fetch attempt by attempt, and the caller takes the futures as they
\* complete.  The pool is scaled to the threads of Threads, so that tasks
\* queue already with three tiles.  The history variables are not kept.

\* three tiles of zoom 15; a box with min_lat = max_lat
LiveBoxes == { Box(100, 1900, 400, 4200), Box(100, 100, 100, 500) }

LiveBodies == {"img1", "trunc"}

LiveCall ==
    /\ pc = "idle"
    /\ renders < MaxLiveRenders
    /\ renders' = renders + 1
    /\ ann' = PlainAnn
    /\ \E b \in LiveBoxes : Enter(b, 1024, 768)
    /\ UNCHANGED << cache, fetchlog, aux >>

\* the future of the task that thread t runs
TaskOf(t) ==
    CHOOSE i \in DOMAIN futures :
        futures[i].st = "running" /\ Key(tiles[i]) = workers[t].key

\* an idle thread takes the first task of the queue
LiveTake(t, i) ==
    /\ pc \in {"fetching", "unwinding"}
    /\ futures[i].st = "pending"
    /\ \A j \in 1..(i - 1) : futures[j].st # "pending"
    /\ workers[t].st = "idle"
    /\ futures' = [futures EXCEPT ![i].st = "running"]
    /\ workers' = [workers EXCEPT ![t] = [Idle EXCEPT !.st = "lookup",
                                                      !.key = Key(tiles[i]),
                                                      !.made = workers[t].made]]
    /\ UNCHANGED << pc, callVars, composite, yielded, netlog, base, final, err,
                    cache, fetchlog, renders, annVars, pool, sessions, calls >>

\* mutant: the thread never comes back for the next task
LiveFinishHolds(t) ==
    /\ workers[t].st = "done"
    /\ futures' = [futures EXCEPT ![TaskOf(t)] =
                     [st |-> "done", content |-> workers[t].content]]
    /\ workers' = [workers EXCEPT ![t].st = "held"]
    /\ UNCHANGED << pc, callVars, composite, yielded, netlog, base, final, err,
                    cache, fetchlog, renders, annVars, pool, sessions, calls >>

\* _fetch_single_tile returns: the future is done, the thread is idle
LiveFinish(t) ==
    /\ workers[t].st = "done"
    /\ futures' = [futures EXCEPT ![TaskOf(t)] =
                     [st |-> "done", content |-> workers[t].content]]
    /\ workers' = [workers EXCEPT ![t] = [Idle EXCEPT !.made = workers[t].made]]
    /\ UNCHANGED << pc, callVars, composite, yielded, netlog, base, final, err,
                    cache, fetchlog, renders, annVars, pool, sessions, calls >>

\* the with block is left after the loop: shutdown(wait=True), the threads
\* end and their thread-locals with them
LiveExitPool ==
    /\ pc = "fetching"
    /\ yielded = DOMAIN futures
    /\ pc' = "cropping"
    /\ workers' = [t \in Threads |-> Idle]
    /\ sessions' = {}
    /\ UNCHANGED << callVars, composite, futures, yielded, netlog, base, final,
                    err, cache, fetchlog, renders, annVars, pool, calls >>

\* the with block is left by the exception, once every task has run
LiveUnwind ==
    /\ pc = "unwinding"
    /\ AllDone
    /\ pc' = "raised"
    /\ workers' = [t \in Threads |-> Idle]
    /\ sessions' = {}
    /\ UNCHANGED << callVars, composite, futures, yielded, netlog, base, final,
                    err, cache, fetchlog, renders, annVars, pool, calls >>

\* what worker thread t can do
ThreadStep(t) ==
    \/ \E i \in DOMAIN futures : LiveTake(t, i)
    \/ FetchHit(t)
    \/ FetchMiss(t)
    \/ \E body \in LiveBodies : FetchOk(t, body)
    \/ FetchOtherStatus(t)
    \/ FetchTransient(t)
    \/ FetchExhausted(t)
    \/ FetchError(t)
    \/ LiveFinish(t)

\* what the thread that called generate_annotated_satellite_image can do
CallerStep ==
    \/ SkipNone
    \/ PasteTile
    \/ PasteRaise
    \/ LiveUnwind
    \/ LiveExitPool
    \/ CropAndReturn
    \/ Compose
    \/ ComposeRaise
    \/ Return

NextLive ==
    \/ LiveCall
    \/ \E t \in Threads, i \in DOMAIN futures : LiveTake(t, i)
    \/ \E t \in Threads : FetchHit(t)
    \/ \E t \in Threads : FetchMiss(t)
    \/ \E t \in Threads, body \in LiveBodies : FetchOk(t, body)
    \/ \E t \in Threads : FetchOtherStatus(t)
    \/ \E t \in Threads : FetchTransient(t)
    \/ \E t \in Threads : FetchExhausted(t)
    \/ \E t \in Threads : FetchError(t)
    \/ \E t \in Threads : LiveFinish(t)
    \/ SkipNone
    \/ PasteTile
    \/ PasteRaise
    \/ LiveUnwind
    \/ LiveExitPool
    \/ CropAndReturn
    \/ Compose
    \/ ComposeRaise
    \/ Return

\* every HTTP attempt ends and the threads are scheduled fairly
SpecLive ==
    /\ Init
    /\ [][NextLive]_vars
    /\ \A t \in Threads : WF_vars(ThreadStep(t))
    /\ WF_vars(CallerStep)

\* ------------------------------------------------------ concurrent calls

\* Two threads call generate_annotated_satellite_image on the one generator
\* at the same time.  A raster is named by the order of its allocation; a
\* write is (thread, raster, kind).  The worker threads of a call's pool
\* are "worker".

callsVars == << pc, bounds, width, height, level, zoom, tiles, composite,
                futures, yielded, netlog, base, final, err, cache, fetchlog,
                renders, annVars, pool, workers, sessions >>

Wrote(thread, raster, kind) ==
    [calls EXCEPT !.writes = @ \cup {<< thread, raster, kind >>}]

\* composite = Image.new(...) in the frame of the call, n tasks submitted
CallsEnter(c, n) ==
    /\ calls.frame[c].pc = "idle"
    /\ calls.next < MaxRasters
    /\ calls' = [Wrote(c, calls.next, "new") EXCEPT
                   !.frame[c] = [NoFrame EXCEPT !.pc = "fetching",
                                                !.composite = calls.next,
                                                !.pending = n],
                   !.next = @ + 1]
    /\ UNCHANGED callsVars

\* mutant: the task pastes its tile into the mosaic itself
CallsTaskPastes(c) ==
    /\ calls.frame[c].pc = "fetching"
    /\ calls.frame[c].pending > 0
    /\ calls' = [Wrote("worker", calls.frame[c].composite, "paste") EXCEPT
                   !.frame[c].pending = @ - 1,
                   !.frame[c].ready = @ + 1]
    /\ UNCHANGED callsVars

\* a task of the call ends on its worker thread: _fetch_single_tile
\* returns (tile_image, x_offset, y_offset) or None
CallsTaskReturn(c) ==
    /\ calls.frame[c].pc = "fetching"
    /\ calls.frame[c].pending > 0
    /\ calls' = [calls EXCEPT !.frame[c].pending = @ - 1,
                              !.frame[c].ready = @ + 1]
    /\ UNCHANGED callsVars

\* the loop of the call takes a result: composite.paste(...)
CallsPaste(c) ==
    /\ calls.frame[c].pc = "fetching"
    /\ calls.frame[c].ready > 0
    /\ calls' = [Wrote(c, calls.frame[c].composite, "paste") EXCEPT
                   !.frame[c].ready = @ - 1]
    /\ UNCHANGED callsVars

\* the loop of the call takes a result that is None
CallsSkip(c) ==
    /\ calls.frame[c].pc = "fetching"
    /\ calls.frame[c].ready > 0
    /\ calls' = [calls EXCEPT !.frame[c].ready = @ - 1]
    /\ UNCHANGED callsVars

\* overlay = Image.new('RGBA', ...) and the drawing steps of the call
CallsOverlay(c) ==
    /\ calls.frame[c].pc = "fetching"
    /\ calls.frame[c].pending = 0
    /\ calls.frame[c].ready = 0
    /\ calls.next <= MaxRasters
    /\ calls' = [Wrote(c, calls.next, "draw") EXCEPT
                   !.frame[c].pc = "drawing",
                   !.frame[c].overlay = calls.next,
                   !.next = @ + 1]
    /\ UNCHANGED callsVars

\* return final_image: the locals of the frame are gone
CallsReturn(c) ==
    /\ calls.frame[c].pc = "drawing"
    /\ calls' = [calls EXCEPT !.frame[c] = NoFrame]
    /\ UNCHANGED callsVars

NextCalls ==
    \/ \E c \in Callers, n \in 1..2 : CallsEnter(c, n)
    \/ \E c \in Callers : CallsTaskReturn(c)
    \/ \E c \in Callers : CallsPaste(c)
    \/ \E c \in Callers : CallsSkip(c)
    \/ \E c \in Callers : CallsOverlay(c)
    \/ \E c \in Callers : CallsReturn(c)

SpecCalls == Init /\ [][NextCalls]_vars

\* ------------------------------------------------------------ properties

\* a bounding box with min < max on both axes
ValidBounds(b) == b.min_lat < b.max_lat /\ b.min_lon < b.max_lon

\* the cell of the mosaic that belongs to tile i, from its coordinate
OwnCell(i) ==
    << (tiles[i].x - MinX(tiles)) * tile_size,
       (tiles[i].y - MinY(tiles)) * tile_size >>

\* what a cell shows for what the fetch of its tile returned
Shown(content) == IF content \in {"img1", "img2"} THEN content ELSE Gray

\* the as_completed loop of _fetch_satellite_tiles was left normally
LoopLeft ==
    \/ pc \in {"cropping", "overlay", "done"}
    \/ pc = "raised" /\ err = "ZeroDivisionError"

\* C1: when _fetch_satellite_tiles has gone through its N tiles, there is
\* one future per tile, each is done and was handed to the loop, and the
\* cell of each tile holds the image fetched for it or the gray placeholder.
C1_EveryCellResolved ==
    (LoopLeft /\ tiles # << >>) =>
        /\ Len(futures) = Len(tiles)
        /\ \A i \in DOMAIN tiles :
             /\ futures[i].st = "done"
             /\ i \in yielded
             /\ OwnCell(i) \in DOMAIN composite
             /\ composite[OwnCell(i)] = Shown(futures[i].content)

\* two tiles, one answered with bytes that are no image, one with an
\* image: the call has returned with a gray cell and a tile cell
C1_Witness ==
    /\ pc = "overlay"
    /\ Len(tiles) = 2
    /\ futures[1].content = "junk"
    /\ composite[<<0, 0>>] = Gray
    /\ composite[<<tile_size, 0>>] = "img1"

\* C2: a tile whose fetch did not return a whole image never ends the
\* render with an exception of the fetch, and its cell stays gray.
C2_TileFailureContained ==
    \A i \in DOMAIN futures :
        (futures[i].st = "done" /\ futures[i].content \notin {"img1", "img2"}) =>
            /\ err # "OSError"
            /\ i \in yielded => composite[OwnCell(i)] = Gray

\* C3: once the loop of _fetch_satellite_tiles is left (the crop starts, the
\* call has returned or raised), every submitted future is done.
C3_ReturnsAfterAllResolved ==
    pc \in {"cropping", "overlay", "done", "raised"} =>
        /\ Len(futures) = Len(tiles)
        /\ \A i \in DOMAIN futures : futures[i].st = "done"

\* the crop starts after two fetches that both went to the network
C3_Witness ==
    /\ pc = "cropping"
    /\ Len(futures) = 2
    /\ Cardinality(netlog) = 2

\* C5: at every moment of the loop, whatever the order of completion,
\* distinct tiles own distinct cells, the cell of a tile shows its own
\* image once the tile was pasted and gray before, and no other cell
\* changes.
C5_PlacementByCoordinate ==
    tiles # << >> =>
        /\ \A i, j \in DOMAIN tiles : i # j => OwnCell(i) # OwnCell(j)
        /\ \A i \in DOMAIN tiles :
             /\ OwnCell(i) \in DOMAIN composite
             /\ composite[OwnCell(i)] =
                  IF i \in yielded THEN Shown(futures[i].content) ELSE Gray
        /\ \A c \in DOMAIN composite :
             (\A i \in DOMAIN tiles : OwnCell(i) # c) => composite[c] = Gray

\* the second tile was pasted while the first, already fetched, was not
C5_Witness ==
    /\ pc = "fetching"
    /\ Len(tiles) = 2
    /\ yielded = {2}
    /\ futures[1].st = "done"
    /\ futures[1].content = "img1"
    /\ composite[<<tile_size, 0>>] = "img2"
    /\ composite[<<0, 0>>] = Gray

\* the values stored in cache c under key (none or one)
Stored(c, key) == { c[k].val : k \in { j \in DOMAIN c : c[j].key = key } }

\* task i makes its cache lookup in this step
Looks(i) ==
    /\ futures[i].st = "running"
    /\ i \in DOMAIN futures'
    /\ futures'[i].st # "running"

\* C4, as stated: once a fetch of a coordinate has completed, every later
\* fetch of that coordinate returns the bytes of that first fetch and
\* issues no request, in whatever render it happens.
C4_CachedForever ==
    [][\A i \in DOMAIN futures :
         (Looks(i) /\ Key(tiles[i]) \in DOMAIN fetchlog) =>
             /\ futures'[i].st = "done"
             /\ futures'[i].content = fetchlog[Key(tiles[i])]
             /\ netlog' = netlog]_vars

\* C4, amended: a fetch whose coordinate is in the cache at the time of its
\* lookup returns the stored bytes and issues no request, and the value
\* stored under a coordinate does not change while the entry stays in the
\* cache, which never holds more than its capacity.
C4_CachedWhileRetained ==
    [][/\ \A i \in DOMAIN futures :
            (Looks(i) /\ Stored(cache, Key(tiles[i])) # {}) =>
                /\ futures'[i].st = "done"
                /\ Stored(cache, Key(tiles[i])) = {futures'[i].content}
                /\ netlog' = netlog
       /\ \A k \in DOMAIN cache :
            Stored(cache', cache[k].key) \in {{}, {cache[k].val}}
       /\ Len(cache') <= lru_maxsize]_vars

\* in a later render a tile was served an image without any request
C4_Witness ==
    /\ renders >= 2
    /\ \E i \in DOMAIN futures :
         /\ futures[i].st = "done"
         /\ futures[i].content = "img1"
         /\ Key(tiles[i]) \notin netlog

\* the crop rectangle of the render, after clamping
RenderBox ==
    CropBox(tiles, zoom, bounds.min_lat, bounds.min_lon,
            bounds.max_lat, bounds.max_lon)

\* the number of tiles that cover the bounding box of the render
Covering ==
    TileCount(bounds.min_lat, bounds.min_lon, bounds.max_lat, bounds.max_lon, zoom)

\* C6: whenever _fetch_satellite_tiles has returned, the raster it returned
\* has the target width and the target height.
C6_TargetSize ==
    LoopLeft /\ pc # "cropping" => base.w = width /\ base.h = height

\* a render whose tile list was cut and whose crop rectangle is empty has
\* returned its raster
C6_Witness ==
    /\ pc = "overlay"
    /\ Covering > Len(tiles)
    /\ ~(RenderBox.x2 > RenderBox.x1 /\ RenderBox.y2 > RenderBox.y1)
    /\ <<base.w, base.h>> = <<width, height>>
    /\ "img1" \in base.vals

\* C7: at most 50 fetches are submitted; of more than 50 covering tiles
\* the first 50 of the enumeration are kept and the grid is that of those
\* 50; and the call returns a raster of the target size and does not fail.
C7_CapStillReturns ==
    pc \notin {"idle", "fetching"} =>
        /\ Len(futures) <= tile_cap
        /\ Covering > tile_cap =>
             /\ Len(tiles) = tile_cap
             /\ \A k \in DOMAIN tiles :
                  LET t == RangesTile(TileRanges(bounds.min_lon, bounds.min_lat,
                                                 bounds.max_lon, bounds.max_lat,
                                                 zoom), k - 1)
                  IN tiles[k].x = t.x /\ tiles[k].y = t.y /\ tiles[k].z = zoom
             /\ DOMAIN composite =
                  { <<i * tile_size, j * tile_size>> :
                      i \in 0..(MaxX(tiles) - MinX(tiles)),
                      j \in 0..(MaxY(tiles) - MinY(tiles)) }
             /\ err # "OSError"
             /\ pc \in {"overlay", "done"} => base.w = width /\ base.h = height

\* the span test of _calculate_zoom_level at zoom z, on the render's box
SpanFits(z) ==
    /\ Abs(bounds.max_lon - bounds.min_lon) <= width * 2 ^ (scan_zoom - z)
    /\ 2 * Abs(bounds.max_lat - bounds.min_lat) <= height * 2 ^ (scan_zoom - z)

\* the grid of tiles that covers the render's box at zoom z fits the target
GridFits(z) ==
    LET r == TileRange(bounds.min_lon, bounds.min_lat,
                       bounds.max_lon, bounds.max_lat, z)
    IN /\ RangeCols(r) * tile_size <= width
       /\ RangeRows(r) * tile_size <= height

\* C8, as stated: for a valid bounding box the grid of tiles that covers
\* it at the returned zoom fits the target, and no higher zoom up to 18
\* has a grid that fits.
C8_TileGridFits ==
    (pc # "idle" /\ ValidBounds(bounds)) =>
        /\ GridFits(level)
        /\ \A z \in (level + 1)..scan_zoom : ~GridFits(z)

\* C8, amended: the returned zoom is the highest zoom of 1..18 at which the
\* span of the box, measured in tiles of 360/2^z by 180/2^z degrees and
\* times 256, is at most the width and the height; the next zoom does not
\* pass that test; when no zoom of 1..18 passes it, 10 is returned.
C8_HighestSpanFit ==
    pc # "idle" =>
        IF \E z \in 1..scan_zoom : SpanFits(z)
        THEN /\ level \in 1..scan_zoom
             /\ SpanFits(level)
             /\ \A z \in (level + 1)..scan_zoom : ~SpanFits(z)
        ELSE level = fallback_zoom

\* a valid box whose span passes the test at the returned zoom, below 18,
\* and fails it one zoom higher
C8_Witness ==
    /\ pc # "idle"
    /\ ValidBounds(bounds)
    /\ level \in 1..(scan_zoom - 1)
    /\ SpanFits(level)
    /\ ~SpanFits(level + 1)

\* C9: a call with an invalid bounding box submits no fetch, issues no
\* request and does not return an image.
C9_InvalidBoundsFailFast ==
    (pc # "idle" /\ ~ValidBounds(bounds)) =>
        /\ Len(futures) = 0
        /\ netlog = {}
        /\ pc # "done"

\* C10: when the enumeration is empty or every fetch of the render has
\* failed, the base raster is uniform gray of the target size and the call
\* ends with an image and with no exception.
C10_NoTileStillImage ==
    (/\ pc \in {"overlay", "done", "raised"}
     /\ \A i \in DOMAIN futures : futures[i].content = None) =>
        /\ base = [w |-> width, h |-> height, vals |-> {Gray}]
        /\ pc # "raised"
        /\ pc = "done" => final.w = width /\ final.h = height + legend_height

\* C11: whenever generate_annotated_satellite_image returns, the final
\* image is width wide and height + 200 high; the map lies at (0, 0) and
\* fills the rows [0, height), the legend starts at row height and none of
\* its entries is drawn above that row.
C11_FinalImageSize ==
    pc = "done" =>
        /\ final.w = width
        /\ final.h = height + 200
        /\ panel.map_x = 0 /\ panel.map_y = 0
        /\ panel.map_w = width /\ panel.map_h = height
        /\ panel.legend_top = height
        /\ \A k \in DOMAIN panel.entries : panel.entries[k].y >= height + 20

\* a render of tiles and annotations has returned its image with a legend
C11_Witness ==
    /\ pc = "done"
    /\ width = 1024 /\ final.h = 968
    /\ "img1" \in final.vals
    /\ Len(panel.entries) = 4
    /\ overlay # << >>

\* the polygons of the overlay drawn for feature k of crop_map_data
PolygonsOf(k) ==
    { j \in DOMAIN overlay : overlay[j].kind = "polygon" /\ overlay[j].index = k }

\* the colour of a feature as (r, g, b)
OwnRgb(feature) ==
    IF ~feature.has_color THEN << 0, 255, 0 >>
    ELSE IF feature.color = Red THEN << 255, 0, 0 >>
    ELSE IF feature.color = Blue THEN << 0, 0, 255 >>
    ELSE << >>

\* _draw_crop_areas has returned: the boundary was drawn after it
CropAreasReturned ==
    \/ pc = "done"
    \/ pc = "raised" /\ \E j \in DOMAIN overlay : overlay[j].kind = "boundary"

LabelsOf(k) ==
    { j \in DOMAIN overlay : overlay[j].kind = "label" /\ overlay[j].index = k }

\* a feature with every key, vertices that are pairs and a hex colour
SoundFeature(f) ==
    /\ f.has_geometry /\ f.has_properties
    /\ \A v \in DOMAIN f.ring : Len(f.ring[v]) = 2
    /\ f.has_color => f.color \in {Red, Blue}

\* the annotations hold nothing worse than a ring of fewer than 3 points
\* and a label without 'lat' or 'lng'
OnlySkippable ==
    /\ \A k \in DOMAIN ann.crop_map_data.features :
         SoundFeature(ann.crop_map_data.features[k])
    /\ \A k \in DOMAIN ann.area_statistics :
         /\ ann.area_statistics[k].has_color
         /\ ann.area_statistics[k].has_crop_name
         /\ ann.area_statistics[k].color \in {Red, Blue}

C14_NoItemAborts ==
    (ValidBounds(bounds) /\ pc = "raised") => err \notin {"KeyError", "ValueError"}

\* C15: at every moment at most 20 fetches are running in a worker, and a
\* submitted fetch is either waiting, running or finished.
C15_AtMostTwentyInFlight ==
    /\ pool.busy <= 20
    /\ pool.queued + pool.busy + pool.done = pool.n

\* twenty fetches run and further ones wait
C15_Witness == pool.busy = 20 /\ pool.queued > 0

\* C16, as stated: the workers of a render share one session with one
\* connection pool, which never holds more than 10 connections.
C16_OneSharedPool == pool.sessions <= 1 /\ pool.conns <= 10

\* C16, amended: every worker thread that has run a fetch has a session
\* and a connection pool of its own, one per thread and not one per task,
\* with one connection; over the at most 20 workers of a render that makes
\* at most 20 sessions and 20 connections.
C16_OnePoolPerWorker ==
    /\ pool.sessions = pool.busy + pool.used
    /\ pool.conns = pool.sessions
    /\ pool.sessions <= 20

\* more tasks than threads were run: there are 20 sessions with 20
\* connections, and finished tasks beyond that
C16_Witness ==
    /\ pool.sessions = 20
    /\ pool.conns = 20
    /\ pool.done > 20

C18_CachedNeverSubmitted ==
    [][\A t \in Threads :
         workers[t].st = "idle" /\ workers'[t].st = "lookup"
         => workers'[t].key \notin CacheKeys(cache)
    ]_vars

\* C18: a fetch whose coordinate is in the cache when the worker looks it
\* up ends in that step with the cached result, makes no HTTP attempt and
\* creates no session; the worker that ran it was occupied by it.
C18_HitWithoutSession ==
    [][\A t \in Threads :
         /\ workers[t].st = "lookup"
         /\ workers[t].key \in CacheKeys(cache)
         /\ workers'[t] # workers[t]
         => /\ workers'[t].st = "done"
            /\ workers'[t].content = CacheValue(cache, workers[t].key)
            /\ workers'[t].attempt = 0
            /\ ~ workers'[t].missed
            /\ sessions' = sessions
            /\ CacheKeys(cache') = CacheKeys(cache)
    ]_vars

\* a worker with no session has served a task from the cache
C18_Witness ==
    \E t \in Threads :
        /\ workers[t].st = "done"
        /\ ~ workers[t].missed
        /\ workers[t].key \in CacheKeys(cache)
        /\ workers[t].content = CacheValue(cache, workers[t].key)
        /\ t \notin sessions

\* C19 as stated: a coordinate that is in the cache stays in it.
C19_NeverEvicted ==
    [][CacheKeys(cache) \subseteq CacheKeys(cache')]_vars

\* C19: the cache is shared by all renders and survives the end of one and
\* the start of the next; it never holds more than its capacity; an entry
\* leaves it only when the result of a new coordinate is stored into the
\* full cache, and the entry that leaves is the least recently used one.
C19_BoundedLru ==
    [][/\ Len(cache') <= lru_maxsize
       /\ \A k \in DOMAIN cache :
            cache[k].key \notin CacheKeys(cache')
            => /\ k = 1
               /\ Len(cache) = lru_maxsize
               /\ CacheKeys(cache') \ CacheKeys(cache) # {}
       /\ (pc = "idle" \/ pc' = "idle") => cache' = cache
    ]_vars

\* a coordinate fetched earlier in the process is no longer in the full
\* cache when a later render starts
C19_Witness ==
    /\ renders > 1
    /\ pc = "fetching"
    /\ Len(cache) = lru_maxsize
    /\ \E key \in DOMAIN fetchlog : key \notin CacheKeys(cache)

\* thread t stores the result of its own request in this step
Stores(t) == workers[t].st = "attempt" /\ workers'[t].st = "done"

\* C20: when two threads fetch the same coordinate and both miss, both
\* complete; the cache never holds two entries of one coordinate; the entry
\* of the coordinate holds the result of the thread that finished first and
\* the other thread's completion leaves the whole cache as it is; the
\* entries of other coordinates keep their values, and none of them leaves
\* the cache except the least recently used one when the first result is
\* stored into the full cache.
C20_RaceKeepsOneEntry ==
    [][\A t \in Threads :
         Stores(t) =>
           /\ Cardinality(CacheKeys(cache')) = Len(cache')
           /\ workers[t].key \in CacheKeys(cache) => cache' = cache
           /\ workers[t].key \notin CacheKeys(cache) =>
                /\ Stored(cache', workers[t].key) = {workers'[t].content}
                /\ \A k \in DOMAIN cache :
                     \/ Stored(cache', cache[k].key) = {cache[k].val}
                     \/ /\ Stored(cache', cache[k].key) = {}
                        /\ k = 1
                        /\ Len(cache) = lru_maxsize
    ]_vars

\* both threads missed the same coordinate and completed with different
\* results; the cache holds one entry of it, with one of the two results,
\* next to the entry of another coordinate
C20_Witness ==
    /\ \A t \in Threads : workers[t].st = "done" /\ workers[t].missed
    /\ workers[1].key = workers[2].key
    /\ workers[1].content # workers[2].content
    /\ Cardinality({ k \in DOMAIN cache : cache[k].key = workers[1].key }) = 1
    /\ Stored(cache, workers[1].key) \subseteq
           {workers[1].content, workers[2].content}
    /\ \E k \in DOMAIN cache : cache[k].key # workers[1].key

\* C22: _calculate_zoom_level returns the first zoom of the scan 18, 17,
\* ..., 1 that passes the span test, and 10 when none does; the zoom used
\* to enumerate and fetch the tiles is min(returned zoom, 15) and lies in
\* 1..15.
C22_ZoomInRange ==
    pc # "idle" =>
        LET fits == { z \in 1..scan_zoom : SpanFits(z) }
        IN /\ fits # {} => level \in fits /\ \A z \in fits : z <= level
           /\ fits = {} => level = 10
           /\ zoom = (IF level <= 15 THEN level ELSE 15)
           /\ zoom \in 1..15
           /\ \A i \in DOMAIN tiles : tiles[i].z = zoom

\* a box small enough for zoom 18: the tiles are those of zoom 15
C22_Witness ==
    /\ pc # "idle"
    /\ SpanFits(scan_zoom)
    /\ level = scan_zoom
    /\ zoom = 15
    /\ tiles # << >>

\* C24: with a non-empty tile list the mosaic is (max_x - min_x + 1) * 256
\* by (max_y - min_y + 1) * 256 pixels, min and max taken over the kept
\* tiles, and every tile's offset ((x - min_x) * 256, (y - min_y) * 256) is
\* the corner of a cell that lies fully inside the mosaic.
C24_MosaicSize ==
    tiles # << >> =>
        LET xs == { tiles[k].x : k \in DOMAIN tiles }
            ys == { tiles[k].y : k \in DOMAIN tiles }
            min_x == CHOOSE m \in xs : \A x \in xs : m <= x
            max_x == CHOOSE m \in xs : \A x \in xs : m >= x
            min_y == CHOOSE m \in ys : \A y \in ys : m <= y
            max_y == CHOOSE m \in ys : \A y \in ys : m >= y
            grid_width == (max_x - min_x + 1) * 256
            grid_height == (max_y - min_y + 1) * 256
        IN /\ DOMAIN composite =
                { <<i * 256, j * 256>> : i \in 0..(max_x - min_x),
                                         j \in 0..(max_y - min_y) }
           /\ Cardinality(DOMAIN composite) * 256 * 256 = grid_width * grid_height
           /\ \A k \in DOMAIN tiles :
                /\ XOffset(tiles[k], MinX(tiles)) = (tiles[k].x - min_x) * 256
                /\ YOffset(tiles[k], MinY(tiles)) = (tiles[k].y - min_y) * 256
                /\ 0 <= (tiles[k].x - min_x) * 256
                /\ (tiles[k].x - min_x) * 256 <= grid_width - 256
                /\ 0 <= (tiles[k].y - min_y) * 256
                /\ (tiles[k].y - min_y) * 256 <= grid_height - 256

\* a tile list cut to 50 over several rows and columns, away from row 0
\* and column 0, with its mosaic
C24_Witness ==
    /\ pc = "cropping"
    /\ Covering > Len(tiles)
    /\ MaxX(tiles) > MinX(tiles)
    /\ MaxY(tiles) > MinY(tiles)
    /\ MinY(tiles) > 0
    /\ Cardinality(DOMAIN composite) =
           (MaxX(tiles) - MinX(tiles) + 1) * (MaxY(tiles) - MinY(tiles) + 1)
    /\ \E c \in DOMAIN composite : c[1] > 0 /\ c[2] > 0 /\ composite[c] # Gray

\* C25: the clamped crop rectangle lies in the mosaic, 0 <= crop_x1,
\* crop_x2 <= grid_width and 0 <= crop_y1, crop_y2 <= grid_height; the
\* mosaic is cropped to it only when crop_x2 > crop_x1 and crop_y2 >
\* crop_y1, and otherwise the whole mosaic is used, so that the raster
\* handed to the resize never has zero width or zero height.
C25_CropClamped ==
    (pc # "idle" /\ tiles # << >>) =>
        LET box == RenderBox
            grid_width == (MaxX(tiles) - MinX(tiles) + 1) * 256
            grid_height == (MaxY(tiles) - MinY(tiles) + 1) * 256
            cropped == Cropped(composite, tiles, box)
        IN /\ box.x1 \in 0..grid_width
           /\ box.x2 \in 0..grid_width
           /\ box.y1 \in 0..grid_height
           /\ box.y2 \in 0..grid_height
           /\ cropped.w > 0
           /\ cropped.h > 0
           /\ IF box.x2 > box.x1 /\ box.y2 > box.y1
              THEN <<cropped.w, cropped.h>> = <<box.x2 - box.x1, box.y2 - box.y1>>
              ELSE /\ <<cropped.w, cropped.h>> = <<grid_width, grid_height>>
                   /\ cropped.vals = { composite[c] : c \in DOMAIN composite }
           /\ pc \in {"overlay", "done"} => base.vals = cropped.vals

\* a valid box narrower than a pixel of the mosaic: the clamped rectangle
\* has zero width and the whole mosaic was resized to the target
C25_Witness ==
    /\ pc = "overlay"
    /\ ValidBounds(bounds)
    /\ RenderBox.x2 = RenderBox.x1
    /\ RenderBox.y2 > RenderBox.y1
    /\ base.vals = { composite[c] : c \in DOMAIN composite }
    /\ base.w = width

\* C26: in the legend of a returned image an entry of greater
\* area_hectares is drawn at a lower grid index than an entry of smaller
\* area_hectares, whatever statistics list was passed.
C26_LegendByArea ==
    pc = "done" =>
        \A i, j \in DOMAIN panel.entries :
            panel.entries[i].area > panel.entries[j].area
            => panel.entries[i].idx < panel.entries[j].idx

\* C28: in the legend of a returned image entry idx lies in column idx
\* mod 3 and row idx div 3, no two entries lie in the same cell, and the
\* swatch of every entry, 20 pixels high from y_offset + 55 + 40 * row, ends
\* inside the 200 pixels of the legend panel.
C28_LegendGrid ==
    pc = "done" =>
        /\ \A k \in DOMAIN panel.entries :
             LET e == panel.entries[k]
             IN /\ e.col = e.idx % 3
                /\ e.row = e.idx \div 3
                /\ e.y = panel.legend_top + 55 + 40 * (e.idx \div 3)
                /\ e.y + 20 <= panel.legend_top + 200
        /\ \A k, m \in DOMAIN panel.entries :
             k # m => <<panel.entries[k].col, panel.entries[k].row>>
                      # <<panel.entries[m].col, panel.entries[m].row>>

\* the points projected so far in the render
Points == { overlay[k] : k \in { j \in DOMAIN overlay : overlay[j].kind = "point" } }

\* q is n / d truncated toward zero, for d > 0
IsTrunc(q, n, d) ==
    IF n >= 0 THEN q * d <= n /\ n < (q + 1) * d
    ELSE (q - 1) * d < n /\ n <= q * d

\* C27: for a valid bounding box _latlon_to_pixel returns x = trunc((lon -
\* min_lon) / (max_lon - min_lon) * width) and y = trunc((max_lat - lat) /
\* (max_lat - min_lat) * height); the north-west corner maps to (0, 0), the
\* south-east corner to (width, height), a point inside the box to 0 <= x
\* <= width and 0 <= y <= height; x does not decrease with lon and y does
\* not increase with lat.
C27_LinearProjection ==
    ValidBounds(bounds) =>
        /\ \A p \in Points :
             /\ IsTrunc(p.x, (p.lon - bounds.min_lon) * width,
                        bounds.max_lon - bounds.min_lon)
             /\ IsTrunc(p.y, (bounds.max_lat - p.lat) * height,
                        bounds.max_lat - bounds.min_lat)
             /\ p.lon = bounds.min_lon => p.x = 0
             /\ p.lat = bounds.max_lat => p.y = 0
             /\ p.lon = bounds.max_lon => p.x = width
             /\ p.lat = bounds.min_lat => p.y = height
             /\ (bounds.min_lon <= p.lon /\ p.lon <= bounds.max_lon)
                => 0 <= p.x /\ p.x <= width
             /\ (bounds.min_lat <= p.lat /\ p.lat <= bounds.max_lat)
                => 0 <= p.y /\ p.y <= height
        /\ \A p, q \in Points :
             /\ p.lon <= q.lon => p.x <= q.x
             /\ p.lat <= q.lat => p.y >= q.y

\* the north-west corner and a point inside were projected, in a box whose
\* sides do not divide the target evenly
C27_Witness ==
    /\ ValidBounds(bounds)
    /\ bounds.max_lat - bounds.min_lat = 307
    /\ \E p, q \in Points :
         /\ <<p.lat, p.lon>> = <<bounds.max_lat, bounds.min_lon>>
         /\ <<p.x, p.y>> = <<0, 0>>
         /\ <<q.lat, q.lon>> = <<233, 233>>
         /\ 0 < q.x /\ q.x < width /\ 0 < q.y /\ q.y < height

\* C29: a fetch never returns a remembered failure: when a task looks up
\* a coordinate whose earlier fetch ended in failure, a request is issued.
C29_FailureFetchedAgain ==
    [][\A i \in DOMAIN futures :
         (Looks(i) /\ Stored(cache, Key(tiles[i])) = {None})
         => /\ futures'[i].st = "requesting"
            /\ Key(tiles[i]) \in netlog'
    ]_vars

\* C30: a worker thread creates at most one session, and only in the step
\* of a cache miss while it has none; a fetch that is in an HTTP attempt
\* uses the session of its own thread, so no session is used by two
\* threads at a time.
C30_OwnSessionOnly ==
    [][\A t \in Threads :
         /\ workers'[t].made <= 1
         /\ workers'[t].made # workers[t].made
            => /\ workers[t].st = "lookup" /\ workers'[t].st = "attempt"
               /\ workers[t].key \notin CacheKeys(cache)
               /\ t \notin sessions
         /\ workers'[t].st = "attempt"
            => /\ workers'[t].sess = t
               /\ t \in sessions'
               /\ \A u \in Threads \ {t} :
                    workers'[u].st = "attempt" => workers'[u].sess # workers'[t].sess
    ]_vars

\* both threads are in an HTTP attempt at once, each on its own session,
\* after two earlier misses were served on those same sessions
C30_Witness ==
    /\ \A t \in Threads :
         /\ workers[t].st = "attempt"
         /\ workers[t].sess = t
         /\ workers[t].made = 1
    /\ Len(cache) = 2
    /\ sessions = Threads

\* C23: when every HTTP attempt ends and the threads are scheduled fairly,
\* a render that has submitted its at most 50 fetches leaves
\* generate_annotated_satellite_image, with an image or an exception; every
\* fetch, waiting in the queue or taken by a thread, ends with its future
\* done, after at most four attempts.
C23_RenderTerminates ==
    /\ (pc = "fetching") ~> (pc \in {"done", "raised"})
    /\ \A i \in 1..3 :
         (i \in DOMAIN futures /\ futures[i].st \in {"pending", "running"})
         ~> (i \in DOMAIN futures /\ futures[i].st = "done")
    /\ [](\A t \in Threads : workers[t].attempt <= 4)
    /\ [](Len(futures) <= 50)

\* a task waits in the queue while both threads are in a request, one of
\* them in its last allowed attempt
C23_Witness ==
    /\ pc = "fetching"
    /\ Len(futures) = 3
    /\ \E i \in DOMAIN futures : futures[i].st = "pending"
    /\ \A t \in Threads : workers[t].st = "attempt"
    /\ \E t \in Threads : workers[t].attempt = 4

\* C21: the mosaic and the overlay of a call are written by the thread
\* that made the call and by no other: no worker thread writes to a
\* raster, a step makes one write at most, and the rasters of two calls in
\* progress are distinct, so that no raster is written by two threads.
C21_RastersOwnedByCaller ==
    [][/\ \A w \in calls'.writes : w[1] \in Callers
       /\ \A v, w \in calls'.writes : v[2] = w[2] => v[1] = w[1]
       /\ Cardinality(calls'.writes \ calls.writes) <= 1
       /\ \A w \in calls'.writes \ calls.writes :
            /\ calls'.frame[w[1]].pc # "idle"
            /\ w[2] \in {calls'.frame[w[1]].composite, calls'.frame[w[1]].overlay}
       /\ \A c, d \in Callers :
            (c # d /\ calls'.frame[c].pc # "idle" /\ calls'.frame[d].pc # "idle")
            => {calls'.frame[c].composite, calls'.frame[c].overlay} \cap
               {calls'.frame[d].composite, calls'.frame[d].overlay} \subseteq {0}
    ]_vars

\* two calls are in their loops at once and each has pasted into its own
\* mosaic
C21_Witness ==
    /\ \A c \in Callers : calls.frame[c].pc = "fetching"
    /\ calls.frame["caller1"].composite # calls.frame["caller2"].composite
    /\ \A c \in Callers :
         << c, calls.frame[c].composite, "paste" >> \in calls.writes
    /\ \E c \in Callers : calls.frame[c].pending > 0

====
